---- MODULE Spec2Model ----
(***************************************************************************)
(* Access and training policy evaluator of the onestop IT-support          *)
(* assistant: requestAccess / requestAPIKey / checkUserTrainingStatus and  *)
(* the audit logger, over the CSV tables they read and write.              *)
(*                                                                         *)
(* Text that the code parses (auto_approve_conditions, the ';'-joined      *)
(* training lists) is a sequence of atoms: an atom is either one of the    *)
(* delimiter characters "," "=" "|" ";" " " or a word that contains no     *)
(* delimiter and never stands next to another word.  Column values that    *)
(* are only compared are plain strings.                                    *)
(***************************************************************************)
EXTENDS Integers, Sequences, FiniteSets, TLC

(***************************************************************************)
(* Bounds of the model                                                     *)
(***************************************************************************)
MaxCalls == 2
MaxTime == 2
MaxInflight == 2
MaxDecisions == 1
MaxSeed == 2
MaxSubmits == 1
MaxLogs == 2
MaxWhitelists == 2
MaxGrants == 2
MaxEvents == 3

(***************************************************************************)
(* String.prototype.split / trim on atom sequences                         *)
(***************************************************************************)
RECURSIVE SplitAcc(_, _, _, _)
SplitAcc(s, sep, cur, acc) ==
    IF s = <<>> THEN Append(acc, cur)
    ELSE IF Head(s) = sep
         THEN SplitAcc(Tail(s), sep, <<>>, Append(acc, cur))
         ELSE SplitAcc(Tail(s), sep, Append(cur, Head(s)), acc)

Split(s, sep) == SplitAcc(s, sep, <<>>, <<>>)

RECURSIVE TrimStart(_)
TrimStart(s) ==
    IF s # <<>> /\ Head(s) = " " THEN TrimStart(Tail(s)) ELSE s

RECURSIVE TrimEnd(_)
TrimEnd(s) ==
    IF s # <<>> /\ s[Len(s)] = " " THEN TrimEnd(SubSeq(s, 1, Len(s) - 1)) ELSE s

Trim(s) == TrimEnd(TrimStart(s))

(***************************************************************************)
(* csv-helper: rows of a table are a sequence in file order                *)
(***************************************************************************)
\* the callback is given as the set of rows of the table it accepts
Rows(data) == {data[i] : i \in DOMAIN data}

findInCSV(data, condition) == SelectSeq(data, LAMBDA row : row \in condition)

\* the first matching row as a sequence of length 1, or <<>> for null
findOneInCSV(data, condition) ==
    LET hits == findInCSV(data, condition)
    IN  IF hits = <<>> THEN <<>> ELSE <<hits[1]>>

appendToCSV(data, row) == Append(data, row)

\* updateCSV overwriting every row, whatever the callback says
updateCSVAllRows(data, condition, updates) ==
    [i \in DOMAIN data |-> updates @@ data[i]]

\* { ...row, ...updates } for the rows the callback accepts
updateCSV(data, condition, updates) ==
    [i \in DOMAIN data |->
        IF data[i] \in condition THEN updates @@ data[i] ELSE data[i]]

(***************************************************************************)
(* Static tables: data/access_policies.csv                                 *)
(***************************************************************************)
Policy(id, rt, rn, approval, conds) ==
    [policy_id |-> id, resource_type |-> rt, resource_name |-> rn,
     required_role |-> "Engineer", requires_approval |-> approval,
     approver_role |-> "Manager", auto_approve_conditions |-> conds]

access_policies ==
    << Policy("P1", "database", "production_db", "true", <<"none">>),
       Policy("P2", "api_key", "stripe", "true", <<"none">>),
       Policy("P3", "api_key", "openai", "false", <<"none">>),
       Policy("P4", "cloud", "aws_dev", "false",
              <<"onboarding_complete", "=", "true">>),
       Policy("P5", "tool", "git_repo", "false",
              <<"team", "=", "Backend", "|", "Platform">>),
       Policy("P6", "tool", "wiki", "false", <<>>),
       Policy("P7", "tool", "ci", "false",
              <<"onboarding_complete", "=", "true", ",",
                "team", "=", "Backend", "|", "Platform">>),
       Policy("P8", "tool", "deploy", "false",
              <<"role", "=", "Engineer", "|", "Senior">>),
       \* condition texts a stored policy may hold: a clause without '=',
       \* blanks around key and value, an empty clause, a bare team clause
       Policy("P9", "tool", "badge", "false", <<"onboarding_complete">>),
       Policy("P10", "tool", "vpn", "false",
              <<" ", "onboarding_complete", " ", "=", " ", "true", " ">>),
       Policy("P11", "tool", "mail", "false",
              <<"onboarding_complete", "=", "true", ",">>),
       Policy("P12", "tool", "chat", "false", <<"team">>) >>

\* the (resource_type, resource_name) pairs a caller may name; the last one
\* has no policy
Resources ==
    { <<"database", "production_db">>, <<"api_key", "stripe">>,
      <<"api_key", "openai">>, <<"cloud", "aws_dev">>,
      <<"tool", "git_repo">>, <<"tool", "wiki">>, <<"tool", "ci">>,
      <<"tool", "deploy">>, <<"tool", "unknown">> }

(***************************************************************************)
(* data/employees.csv                                                      *)
(***************************************************************************)
Employee(e, role, team, mgr, onb) ==
    [email |-> e, name |-> e, role |-> role, team |-> team,
     manager_email |-> mgr, security_training_complete |-> "true",
     onboarding_complete |-> onb]

\* the tables the stateful runs start from
CoreEmployeeTables ==
    { << Employee("eve", "Engineer", "Backend", "bob", onb),
         Employee("frank", "Senior", "Frontend", "carol", "true") >>
      : onb \in {"true", "false"} }

\* the tables the policy decisions are tried on
EmployeeTables ==
    { << Employee("eve", role, team, "bob", onb),
         Employee("frank", "Senior", "Frontend", "carol", "true") >>
      : role \in {"Engineer", "Intern"},
        team \in {"Backend", "Platform", "Frontend"},
        onb \in {"true", "false"} }

\* "ghost" has no employee row
Emails == {"eve", "frank", "ghost"}

\* the resources named in the stateful runs
CoreResources ==
    { <<"database", "production_db">>, <<"cloud", "aws_dev">>,
      <<"tool", "unknown">> }

Services == {"stripe", "openai", "unknown"}

Environments == {"test"}

Reason == "need it"

VARIABLES
    employees,          \* employees.csv
    user_access,        \* user_access.csv
    approval_requests,  \* approval_requests.csv
    api_keys,           \* api_keys.csv
    audit_log,          \* audit_log.csv
    now,                \* Date.now()
    inflight,           \* calls suspended in an awaited external call
    last,               \* the call that returned last, with its result
    ncalls,             \* number of calls started
    user_training,      \* user_training.csv
    gate,               \* the last checkUserTrainingStatus call and result
    view,               \* the last call of a listing tool and its result
    ip_whitelist,       \* ip_whitelist.csv
    client              \* the ClientAuditLogger of one browser page

vars == <<employees, user_access, approval_requests, api_keys, audit_log,
          now, inflight, last, ncalls, user_training, gate, view,
          ip_whitelist, client>>

trainingVars == <<user_training, gate>>

\* the client audit logger as its constructor leaves it (pendingEvents = [],
\* isOnline = true), with no send under way and the server answering
ClientStart ==
    [pendingEvents |-> <<>>, isOnline |-> TRUE, serverUp |-> TRUE,
     sends |-> {}, flushes |-> <<>>, acked |-> <<>>, returned |-> <<>>]

\* state that only the listing tools, the network tools and the client
\* audit logger change
otherVars == <<view, ip_whitelist, client>>

(***************************************************************************)
(* requestAccess (lib/tools/access.ts)                                     *)
(***************************************************************************)
\* what a row lookup user[k] yields for a column the row does not have;
\* two adjacent words, which no parsed text contains
Undefined == <<"undefined", "undefined">>

\* user[key] for a key given as parsed text
Attr(user, key) ==
    IF Len(key) = 1 /\ key[1] \in DOMAIN user THEN <<user[key[1]]>>
    ELSE Undefined

\* allowedTeams.includes(user.team)
Includes(list, x) == \E i \in DOMAIN list : list[i] = x

\* the for-loop over conditionPairs: "ok" when it runs to the end, "fail"
\* when a clause sets canAutoApprove = false and breaks, "throw" when a
\* clause has no '=' so that value is undefined and value.split / value.trim
\* raises a TypeError
RECURSIVE ConditionLoop(_, _)
ConditionLoop(conditionPairs, user) ==
    IF conditionPairs = <<>> THEN "ok"
    ELSE LET parts == Split(Head(conditionPairs), "=")
             key == parts[1]
         IN  IF Len(parts) < 2 THEN "throw"
             ELSE IF key = <<"team">>
                  THEN IF ~Includes(Split(parts[2], "|"), <<user.team>>)
                       THEN "fail"
                       ELSE ConditionLoop(Tail(conditionPairs), user)
                  ELSE IF Attr(user, Trim(key)) # Trim(parts[2])
                       THEN "fail"
                       ELSE ConditionLoop(Tail(conditionPairs), user)

\* canAutoApprove after lines 111-130
CanAutoApprove(conditions, user) ==
    IF conditions # <<"none">> /\ conditions # <<>>
    THEN ConditionLoop(Split(conditions, ","), user)
    ELSE "ok"

NoId == <<>>

\* the object a call returns; error is the message, piece by piece
Result(success, requiresApproval, requestId, approver, error) ==
    [threw |-> FALSE, success |-> success,
     requiresApproval |-> requiresApproval, requestId |-> requestId,
     approver |-> approver, error |-> error, ticketKey |-> "",
     keyId |-> NoId]

Thrown == [Result(FALSE, FALSE, NoId, "", <<"TypeError">>)
              EXCEPT !.threw = TRUE]

NullDate == [k |-> "null", t |-> 0]

\* ApprovalRow with the requester written as the approver
ApprovalRowSelfApprover(requestId, userEmail, resourceType, resourceName, reason, approver, ticket) ==
    [request_id |-> requestId, requester_email |-> userEmail,
     resource_type |-> resourceType, resource_name |-> resourceName,
     reason |-> reason, approver_email |-> userEmail, status |-> "pending",
     created_at |-> now, resolved_at |-> NullDate, ticket_id |-> ticket]

ApprovalRow(requestId, userEmail, resourceType, resourceName, reason, approver, ticket) ==
    [request_id |-> requestId, requester_email |-> userEmail,
     resource_type |-> resourceType, resource_name |-> resourceName,
     reason |-> reason, approver_email |-> approver, status |-> "pending",
     created_at |-> now, resolved_at |-> NullDate, ticket_id |-> ticket]

\* GrantRow with the access level of an approved admin grant
GrantRowAdmin(userEmail, resourceType, resourceName) ==
    [user_email |-> userEmail, resource_type |-> resourceType,
     resource_name |-> resourceName, access_level |-> "admin",
     granted_date |-> now, granted_by |-> "auto", expires_at |-> NullDate,
     status |-> "active"]

GrantRow(userEmail, resourceType, resourceName) ==
    [user_email |-> userEmail, resource_type |-> resourceType,
     resource_name |-> resourceName, access_level |-> "read_only",
     granted_date |-> now, granted_by |-> "auto", expires_at |-> NullDate,
     status |-> "active"]

\* `REQ-${Date.now()}`
RequestId(t) == <<"REQ", t>>

\* EarlyReturn with the user looked up before the policy
EarlyReturnUserFirst(policy, user, resourceType, resourceName) ==
    IF user = <<>> THEN <<"User not found">>
    ELSE IF policy = <<>>
    THEN <<"No policy found for", resourceType, ":", resourceName>>
    ELSE <<>>

\* lines 56-74: the message of the early return, <<>> when both rows exist
EarlyReturn(policy, user, resourceType, resourceName) ==
    IF policy = <<>>
    THEN <<"No policy found for", resourceType, ":", resourceName>>
    ELSE IF user = <<>> THEN <<"User not found">>
    ELSE <<>>

\* ConditionsNotMet with the condition string left out of the message
ConditionsNotMetBare(conditions) ==
    Result(FALSE, FALSE, NoId, "",
           <<"Auto-approval conditions not met. Required:">>)

\* lines 132-137
ConditionsNotMet(conditions) ==
    Result(FALSE, FALSE, NoId, "",
           <<"Auto-approval conditions not met. Required:">> \o conditions)

\* One run of requestAccess on the current tables: the result it returns,
\* the tables it leaves, and whether it awaited sendSlackDM on the way.
requestAccess(userEmail, resourceType, resourceName, reason) ==
    LET policy == findOneInCSV(access_policies,
                     {row \in Rows(access_policies) : row.resource_type = resourceType
                                  /\ row.resource_name = resourceName})
        user == findOneInCSV(employees, {row \in Rows(employees) : row.email = userEmail})
        early == EarlyReturn(policy, user, resourceType, resourceName)
        same == [user_access |-> user_access,
                 approval_requests |-> approval_requests, slack |-> FALSE]
    IN  IF early # <<>>
        THEN [result |-> Result(FALSE, FALSE, NoId, "", early)] @@ same
        ELSE IF policy[1].requires_approval = "true"
        THEN [result |-> Result(TRUE, TRUE, RequestId(now),
                                user[1].manager_email, <<>>),
              user_access |-> user_access,
              approval_requests |->
                  appendToCSV(approval_requests,
                      ApprovalRow(RequestId(now), userEmail, resourceType,
                                  resourceName, reason,
                                  user[1].manager_email, "null")),
              slack |-> TRUE]
        ELSE LET conditions == policy[1].auto_approve_conditions
                 canAutoApprove == CanAutoApprove(conditions, user[1])
             IN  IF canAutoApprove = "throw"
                 THEN [result |-> Thrown] @@ same
                 ELSE IF canAutoApprove = "fail"
                 THEN [result |-> ConditionsNotMet(conditions)] @@ same
                 ELSE [result |-> Result(TRUE, FALSE, NoId, "", <<>>),
                       user_access |->
                           appendToCSV(user_access,
                               GrantRow(userEmail, resourceType,
                                        resourceName)),
                       approval_requests |-> approval_requests,
                       slack |-> FALSE]

\* checkUserAccess: the user's rows with status active
checkUserAccess(userEmail) ==
    findInCSV(user_access,
        {row \in Rows(user_access) : row.user_email = userEmail /\ row.status = "active"})

(***************************************************************************)
(* AuditLogger (lib/audit-logger.ts)                                       *)
(***************************************************************************)
\* Math.random().toString(36).substr(2, 6).toUpperCase()
RandomSuffixes == {"K3J9QZ"}

\* a field the caller passed with the value undefined
Undef == "undefined"
UndefNum == -1

generateEventId(rnd) == <<"AUDIT", now, rnd>>

\* the fields logEvent computes before it spreads ...event over them
DefaultedFields ==
    {"event_id", "timestamp", "event_type", "severity", "user_email",
     "action", "action_result", "description"}

Defaulted(f, rnd) ==
    CASE f = "event_id" -> generateEventId(rnd)
      [] f = "timestamp" -> now
      [] f = "event_type" -> "SYSTEM_ACCESS"
      [] f = "severity" -> "LOW"
      [] f = "user_email" -> "system"
      [] f = "action" -> "unknown_action"
      [] f = "action_result" -> "SUCCESS"
      [] f = "description" -> "No description provided"

\* const auditEvent = { event_id: ..., ...event }: a key of event wins over
\* the computed value, whatever it holds
MergeEvent(event, rnd) ==
    [f \in DefaultedFields \cup DOMAIN event |->
        IF f \in DOMAIN event THEN event[f] ELSE Defaulted(f, rnd)]

\* event.f || ''
OrEmpty(e, f) == IF f \in DOMAIN e /\ e[f] # Undef THEN e[f] ELSE ""

flattenEvent(e) ==
    [event_id |-> e.event_id, timestamp |-> e.timestamp,
     event_type |-> e.event_type, severity |-> e.severity,
     user_email |-> e.user_email,
     resource_type |-> OrEmpty(e, "resource_type"),
     resource_name |-> OrEmpty(e, "resource_name"),
     action |-> e.action, action_result |-> e.action_result,
     description |-> e.description,
     risk_score |-> IF "risk_score" \in DOMAIN e /\ e.risk_score # UndefNum
                    THEN e.risk_score ELSE 0]

\* logEvent: the table after the call; stored = FALSE is an append that
\* threw (the catch block only prints)
logEvent(log, event, rnd, stored) ==
    IF stored THEN appendToCSV(log, flattenEvent(MergeEvent(event, rnd)))
    ELSE log

\* the event logToolExecution hands to logEvent
logToolExecution(userEmail, toolName, result) ==
    [event_type |-> "TOOL_EXECUTED", severity |-> "LOW",
     user_email |-> userEmail, action |-> <<"execute_tool_", toolName>>,
     action_result |-> result,
     description |-> <<"Tool", toolName, "executed", result>>]

\* String.prototype.includes / startsWith on the names of the model: the
\* parts each name contains, and the prefixes each address starts with
StrIncludes(s, part) ==
    CASE s = "production_db" -> part \in {"production", "prod"}
      [] s = "prod_cache" -> part \in {"prod"}
      [] s = "ivy.intern" -> part \in {"intern"}
      [] OTHER -> FALSE

StartsWith(s, prefix) ==
    CASE s = "10.0.0.5" -> prefix = "10."
      [] s = "192.168.1.9" -> prefix = "192.168."
      [] OTHER -> FALSE

getSeverityForResource(resourceType, resourceName) ==
    IF StrIncludes(resourceName, "production")
       \/ StrIncludes(resourceName, "prod")
    THEN "HIGH"
    ELSE IF resourceType = "api_key" /\ resourceName = "stripe" THEN "HIGH"
    ELSE IF resourceType = "database" \/ resourceType = "api_key"
    THEN "MEDIUM"
    ELSE "LOW"

\* Math.min(score, 100)
MinOf(a, b) == IF a < b THEN a ELSE b

calculateRiskScore(resourceType, resourceName, userEmail) ==
    MinOf(10
          + (IF StrIncludes(resourceName, "production") THEN 40 ELSE 0)
          + (IF resourceType = "database" THEN 30 ELSE 0)
          + (IF resourceType = "api_key" THEN 25 ELSE 0)
          + (IF resourceName = "stripe" THEN 35 ELSE 0)
          + (IF StrIncludes(userEmail, "intern") THEN 20 ELSE 0),
          100)

calculateIPRiskScore(ipAddress, action) ==
    MinOf(20
          + (IF action = "ACCESS_ATTEMPT" THEN 10 ELSE 0)
          + (IF action = "WHITELISTED" THEN 30 ELSE 0)
          - (IF StartsWith(ipAddress, "10.")
                \/ StartsWith(ipAddress, "192.168.")
             THEN 10 ELSE 0),
          100)

\* the event logAccessRequest hands to logEvent
logAccessRequest(userEmail, resourceType, resourceName, reason, result) ==
    [event_type |-> "ACCESS_REQUEST",
     severity |-> getSeverityForResource(resourceType, resourceName),
     user_email |-> userEmail, resource_type |-> resourceType,
     resource_name |-> resourceName, action |-> <<"request_access">>,
     action_result |-> result,
     description |-> <<"Access request for", resourceType, resourceName,
                       reason>>,
     risk_score |-> calculateRiskScore(resourceType, resourceName,
                                       userEmail)]

\* the event logSecurityEvent hands to logEvent
logSecurityEvent(userEmail, eventType, description, severity) ==
    [event_type |-> "SECURITY_VIOLATION", severity |-> severity,
     user_email |-> userEmail, action |-> eventType,
     action_result |-> "SUCCESS", description |-> description,
     risk_score |-> IF severity = "CRITICAL" THEN 100
                    ELSE IF severity = "HIGH" THEN 80 ELSE 60]

\* the event logIPWhitelist hands to logEvent
logIPWhitelist(userEmail, ipAddress, action, result) ==
    [event_type |-> "IP_WHITELISTED", severity |-> "MEDIUM",
     user_email |-> userEmail, action |-> <<"ip_", action>>,
     action_result |-> result,
     description |-> <<"IP", ipAddress, action, "for", userEmail>>,
     risk_score |-> calculateIPRiskScore(ipAddress, action)]

(***************************************************************************)
(* Training gate (lib/tools/training.ts)                                   *)
(***************************************************************************)
\* data/training_requirements.csv; tool:wiki has no row
training_requirements ==
    << [resource_type |-> "database", resource_name |-> "production_db",
        required_training |-> <<"security_training", ";", "data_privacy">>,
        training_name |-> <<"Security Training", ";", "Data Privacy">>,
        training_url |-> <<"https://training/security", ";",
                           "https://training/privacy">>],
       [resource_type |-> "cloud", resource_name |-> "aws_dev",
        required_training |-> <<"security_training">>,
        training_name |-> <<"Security Training">>,
        training_url |-> <<"https://training/security">>] >>

TrainingResources ==
    { <<"database", "production_db">>, <<"cloud", "aws_dev">>,
      <<"tool", "wiki">> }

TrainingIds == <<"security_training", "data_privacy">>

\* a date column as the CSV holds it: empty, the text null, a date (its
\* time on the clock of the model) or text that is not a date
EmptyDate == [k |-> "empty", t |-> 0]
InvalidDate == [k |-> "invalid", t |-> 0]
DateAt(t) == [k |-> "date", t |-> t]
\* the JavaScript value null in a result
JsNull == [k |-> "jsnull", t |-> 0]

TrainingRow(userEmail, id, completed, expires) ==
    [user_email |-> userEmail, training_id |-> id,
     training_name |-> id, completed |-> completed,
     completed_date |-> "2024-01-15", expires_at |-> expires,
     certificate_url |-> "https://certs/x"]

\* what one user may have on file for one training: nothing, or one row
TrainingOptions(userEmail, id) ==
    { <<>> }
    \cup { <<TrainingRow(userEmail, id, "false", e)>> :
              e \in {EmptyDate, DateAt(1)} }
    \cup { <<TrainingRow(userEmail, id, "true", e)>> :
              e \in {EmptyDate, NullDate, DateAt(1), InvalidDate} }

\* the user_training.csv files tried: frank's row first, then eve's
TrainingTables ==
    { <<TrainingRow("frank", TrainingIds[1], "true", EmptyDate)>> \o a \o b :
        a \in TrainingOptions("eve", TrainingIds[1]),
        b \in TrainingOptions("eve", TrainingIds[2]) }

getTrainingRequirements(resourceType, resourceName) ==
    findOneInCSV(training_requirements,
        {row \in Rows(training_requirements) : row.resource_type = resourceType
                     /\ row.resource_name = resourceName})

\* At reading the first element whatever the index
AtFirst(list, i) == IF 1 \in DOMAIN list THEN list[1] ELSE Undefined

\* list[i] of a JavaScript array, undefined past its end
At(list, i) == IF i \in DOMAIN list THEN list[i] ELSE Undefined

\* userTraining.expires_at ? new Date(userTraining.expires_at) < new Date()
\*                         : false
\* Expired measured against the clock of the previous call (a cached now)
ExpiredCachedClock(expires_at) ==
    IF expires_at.k = "empty" THEN FALSE
    ELSE IF expires_at.k = "date" THEN expires_at.t < gate.at
    ELSE FALSE

\* Expired reading a training that runs out now as run out already
ExpiredInclusive(expires_at) ==
    IF expires_at.k = "empty" THEN FALSE
    ELSE IF expires_at.k = "date" THEN expires_at.t <= now
    ELSE FALSE

Expired(expires_at) ==
    IF expires_at.k = "empty" THEN FALSE
    ELSE IF expires_at.k = "date" THEN expires_at.t < now
    ELSE FALSE

\* the for-loop of lines 242-279, from index i on
RECURSIVE TrainingLoop(_, _, _, _, _, _)
TrainingLoop(i, requiredTrainingIds, trainingNames, trainingUrls, userTrainings, lists) ==
    IF i > Len(requiredTrainingIds) THEN lists
    ELSE LET trainingId == requiredTrainingIds[i]
             userTraining == findOneInCSV(userTrainings,
                                {t \in Rows(userTrainings) : <<t.training_id>> = trainingId})
             done == [training_id |-> trainingId,
                      training_name |-> At(trainingNames, i),
                      completed |-> TRUE,
                      completed_date |-> userTraining[1].completed_date,
                      expires_at |-> userTraining[1].expires_at,
                      expired |-> Expired(userTraining[1].expires_at),
                      training_url |-> At(trainingUrls, i),
                      certificate_url |-> userTraining[1].certificate_url]
             missing == [training_id |-> trainingId,
                         training_name |-> At(trainingNames, i),
                         completed |-> FALSE,
                         completed_date |-> "null",
                         expires_at |-> JsNull,
                         expired |-> FALSE,
                         training_url |-> At(trainingUrls, i),
                         certificate_url |-> "null"]
         IN  TrainingLoop(i + 1, requiredTrainingIds, trainingNames,
                 trainingUrls, userTrainings,
                 IF userTraining # <<>> /\ userTraining[1].completed = "true"
                 THEN [lists EXCEPT !.trainingStatus = Append(@, done)]
                 ELSE [lists EXCEPT !.missingTraining = Append(@, missing)])

\* HasRequiredTraining without the expiry test
HasRequiredTrainingNoExpiry(trainingStatus, missingTraining) ==
    Len(missingTraining) = 0

\* lines 282-283
HasRequiredTraining(trainingStatus, missingTraining) ==
    /\ Len(missingTraining) = 0
    /\ \A i \in DOMAIN trainingStatus : ~trainingStatus[i].expired

checkUserTrainingStatus(userEmail, resourceType, resourceName) ==
    LET requirements == getTrainingRequirements(resourceType, resourceName)
    IN  IF requirements = <<>>
        THEN [hasRequiredTraining |-> TRUE, trainingStatus |-> <<>>,
              missingTraining |-> <<>>]
        ELSE LET lists ==
                   TrainingLoop(1,
                       Split(requirements[1].required_training, ";"),
                       Split(requirements[1].training_name, ";"),
                       Split(requirements[1].training_url, ";"),
                       findInCSV(user_training,
                           {row \in Rows(user_training) : row.user_email = userEmail}),
                       [trainingStatus |-> <<>>, missingTraining |-> <<>>])
             IN  [hasRequiredTraining |->
                      HasRequiredTraining(lists.trainingStatus,
                                          lists.missingTraining),
                  trainingStatus |-> lists.trainingStatus,
                  missingTraining |-> lists.missingTraining]

\* a call of the gate as the tool returned it
GateCall(op, userEmail, resourceType, resourceName, at, result) ==
    [op |-> op, userEmail |-> userEmail, resourceType |-> resourceType,
     resourceName |-> resourceName, at |-> at, result |-> result]

NoGateCall ==
    GateCall("none", "", "", "", 0,
             [hasRequiredTraining |-> FALSE, trainingStatus |-> <<>>,
              missingTraining |-> <<>>])

\* the latest call of the gate and, in prev, the call before it
NoGate ==
    [op |-> "none", userEmail |-> "", resourceType |-> "",
     resourceName |-> "", at |-> 0,
     result |-> [hasRequiredTraining |-> FALSE, trainingStatus |-> <<>>,
                 missingTraining |-> <<>>],
     prev |-> NoGateCall]

(***************************************************************************)
(* The listing tools of lib/tools/access.ts                                *)
(***************************************************************************)
\* getPendingApprovals with the requester's email tested for the approver's
getPendingApprovalsByRequester(approverEmail) ==
    findInCSV(approval_requests,
        {row \in Rows(approval_requests) :
            row.requester_email = approverEmail /\ row.status = "pending"})

getPendingApprovals(approverEmail) ==
    findInCSV(approval_requests,
        {row \in Rows(approval_requests) :
            row.approver_email = approverEmail /\ row.status = "pending"})

\* allRequests.filter((req) => req.status === status)
FilterStatus(requests, status) ==
    SelectSeq(requests, LAMBDA req : req.status = status)

\* sortByDate with the operands of the subtraction exchanged: oldest first
InsertByDateAscending(sorted, req) ==
    LET before == {i \in DOMAIN sorted :
                      \A j \in 1..i : sorted[j].created_at <= req.created_at}
        k == Cardinality(before)
    IN  SubSeq(sorted, 1, k) \o <<req>> \o SubSeq(sorted, k + 1, Len(sorted))

\* one step of the stable Array.prototype.sort under sortByDate (newest
\* first): req goes behind the entries that are not older than it
InsertByDate(sorted, req) ==
    LET before == {i \in DOMAIN sorted :
                      \A j \in 1..i : sorted[j].created_at >= req.created_at}
        k == Cardinality(before)
    IN  SubSeq(sorted, 1, k) \o <<req>> \o SubSeq(sorted, k + 1, Len(sorted))

RECURSIVE SortByDate(_)
SortByDate(requests) ==
    IF requests = <<>> THEN <<>>
    ELSE InsertByDate(SortByDate(SubSeq(requests, 1, Len(requests) - 1)),
                      requests[Len(requests)])

getUserRequestHistory(userEmail) ==
    LET allRequests ==
            findInCSV(approval_requests,
                {row \in Rows(approval_requests) :
                    row.requester_email = userEmail})
    IN  [pending |-> SortByDate(FilterStatus(allRequests, "pending")),
         approved |-> SortByDate(FilterStatus(allRequests, "approved")),
         rejected |-> SortByDate(FilterStatus(allRequests, "rejected")),
         total |-> Len(allRequests)]

(***************************************************************************)
(* The tools of the chat route                                             *)
(***************************************************************************)
\* the two chat routes of the repository: the one that audits every tool
\* execution and the one that calls the tool functions directly
Routes == {"audited", "plain"}

NoResult == Result(FALSE, FALSE, NoId, "", <<>>)

CallRecord(op, route, userEmail, resourceType, resourceName, result, preAccess, postAccess, preRequests, postRequests) ==
    [op |-> op, route |-> route, userEmail |-> userEmail,
     resourceType |-> resourceType, resourceName |-> resourceName,
     result |-> result, phase |-> "", since |-> now, ticket |-> "null",
     pre_access |-> preAccess, post_access |-> postAccess,
     pre_requests |-> preRequests, post_requests |-> postRequests,
     audit_rows |-> 0]

NoCall == CallRecord("none", "", "", "", "", NoResult, <<>>, <<>>, <<>>, <<>>)

\* a call of a listing tool: its argument, the file it read, its result and
\* the requestAccess call that had returned last when it was made
ViewRecord(op, arg, table, result) ==
    [op |-> op, arg |-> arg, table |-> table, result |-> result,
     after |-> last]

NoView ==
    [op |-> "none", arg |-> "", table |-> <<>>, result |-> <<>>,
     after |-> NoCall]

Init ==
    /\ employees \in CoreEmployeeTables
    /\ user_access = <<>>
    /\ approval_requests = <<>>
    /\ api_keys = <<>>
    /\ audit_log = <<>>
    /\ now = 0
    /\ inflight = <<>>
    /\ last = NoCall
    /\ ncalls = 0
    /\ user_training = <<>>
    /\ gate = NoGate
    /\ view = NoView
    /\ ip_whitelist = <<>>
    /\ client = ClientStart

RemoveAt(seq, i) == SubSeq(seq, 1, i - 1) \o SubSeq(seq, i + 1, Len(seq))

\* The end of the requestAccess tool's execute: the audited route logs the
\* tool execution (in its try block for a returned result, in its catch
\* block for a thrown error), then the result goes back to the caller.
ReturnRequestAccess(call) ==
    IF call.route = "audited"
    THEN \E rnd \in RandomSuffixes :
            /\ audit_log' = logEvent(audit_log,
                   logToolExecution(call.userEmail, "requestAccess",
                       IF call.result.success THEN "SUCCESS" ELSE "FAILURE"),
                   rnd, TRUE)
            /\ last' = [call EXCEPT
                           !.audit_rows = Len(audit_log') - Len(audit_log)]
    ELSE /\ audit_log' = audit_log
         /\ last' = [call EXCEPT
                        !.audit_rows = Len(audit_log') - Len(audit_log)]

\* requestAccess tool, from the call to the first awaited external call
\* (sendSlackDM) or, on the paths without one, to the return
RequestAccessCall(route, userEmail, resourceType, resourceName) ==
    LET r == requestAccess(userEmail, resourceType, resourceName, Reason)
        call == CallRecord("requestAccess", route, userEmail, resourceType,
                           resourceName, r.result,
                           user_access, r.user_access,
                           approval_requests, r.approval_requests)
    IN  /\ ncalls < MaxCalls
        /\ ncalls' = ncalls + 1
        /\ user_access' = r.user_access
        /\ approval_requests' = r.approval_requests
        /\ IF r.slack
           THEN /\ Len(inflight) < MaxInflight
                /\ inflight' = Append(inflight, [call EXCEPT !.phase = "slack"])
                /\ UNCHANGED <<audit_log, last>>
           ELSE /\ ReturnRequestAccess(call)
                /\ UNCHANGED inflight
        /\ UNCHANGED <<employees, api_keys, now>>
        /\ UNCHANGED <<trainingVars, otherVars>>

\* sendSlackDM resolves (its sleep(800) has elapsed) and requestAccess
\* returns the pending-approval result
RequestAccessResume(i) ==
    /\ i \in DOMAIN inflight
    /\ inflight[i].op = "requestAccess"
    /\ inflight[i].phase = "slack"
    /\ now > inflight[i].since
    /\ inflight' = RemoveAt(inflight, i)
    /\ ReturnRequestAccess(inflight[i])
    /\ UNCHANGED <<employees, user_access, approval_requests, api_keys, now,
                   ncalls>>
    /\ UNCHANGED <<trainingVars, otherVars>>

(***************************************************************************)
(* requestAPIKey (lib/tools/api-keys.ts); both chat routes call it         *)
(* without audit logging                                                   *)
(***************************************************************************)
\* `SDE-${Math.floor(Math.random() * 10000)}`
TicketKeys == {"SDE-4711"}

\* 365 * 24 * 60 * 60 * 1000 ms, in clock steps of the model
YearTicks == 1000

KeyRow(keyId, service, environment, userEmail) ==
    [key_id |-> keyId, service |-> service, environment |-> environment,
     user_email |-> userEmail, created_date |-> now,
     expires_at |-> IF environment = "test"
                    THEN [k |-> "date", t |-> now + YearTicks]
                    ELSE NullDate,
     last_used |-> "never", status |-> "active", project |-> "demo",
     approval_ticket |-> "auto"]

\* requestAPIKey from the call to createJiraTicket (approval required) or to
\* the return (every other path)
RequestAPIKeyCall(userEmail, service, environment) ==
    LET policy == findOneInCSV(access_policies,
                     {row \in Rows(access_policies) : row.resource_type = "api_key"
                                  /\ row.resource_name = service})
        user == findOneInCSV(employees, {row \in Rows(employees) : row.email = userEmail})
        call(result) == CallRecord("requestAPIKey", "plain", userEmail,
                            "api_key", service, result,
                            user_access, user_access,
                            approval_requests, approval_requests)
    IN  /\ ncalls < MaxCalls
        /\ ncalls' = ncalls + 1
        /\ IF policy = <<>>
           THEN /\ last' = call(Result(FALSE, FALSE, NoId, "",
                            <<"No policy found for", service, "API keys">>))
                /\ UNCHANGED <<api_keys, inflight>>
           ELSE IF user = <<>>
           THEN /\ last' = call(Result(FALSE, FALSE, NoId, "",
                                       <<"User not found">>))
                /\ UNCHANGED <<api_keys, inflight>>
           ELSE IF policy[1].requires_approval = "true"
           THEN /\ Len(inflight) < MaxInflight
                /\ inflight' = Append(inflight,
                       [call(NoResult) EXCEPT !.phase = "jira"])
                /\ UNCHANGED <<api_keys, last>>
           ELSE /\ api_keys' = appendToCSV(api_keys,
                       KeyRow(<<"KEY", now>>, service, environment, userEmail))
                /\ last' = call([Result(TRUE, FALSE, NoId, "", <<>>)
                                    EXCEPT !.keyId = <<"KEY", now>>])
                /\ UNCHANGED inflight
        /\ UNCHANGED <<employees, user_access, approval_requests, audit_log,
                       now>>
        /\ UNCHANGED <<trainingVars, otherVars>>

\* createJiraTicket resolves (its sleep(1000) has elapsed): the request row
\* is written with the ticket key, then sendSlackDM is awaited
RequestAPIKeyTicket(i) ==
    /\ i \in DOMAIN inflight
    /\ inflight[i].op = "requestAPIKey"
    /\ inflight[i].phase = "jira"
    /\ now > inflight[i].since
    /\ \E ticket \in TicketKeys :
        LET c == inflight[i]
            user == findOneInCSV(employees,
                        {row \in Rows(employees) : row.email = c.userEmail})
            row == ApprovalRow(RequestId(now), c.userEmail, "api_key",
                               c.resourceName, Reason,
                               user[1].manager_email, ticket)
        IN  /\ approval_requests' = appendToCSV(approval_requests, row)
            /\ inflight' = [inflight EXCEPT ![i] =
                   [c EXCEPT !.phase = "slack", !.since = now,
                             !.ticket = ticket,
                             !.result = [Result(TRUE, TRUE, RequestId(now),
                                                "", <<>>)
                                            EXCEPT !.ticketKey = ticket],
                             !.pre_requests = approval_requests,
                             !.post_requests = approval_requests']]
    /\ UNCHANGED <<employees, user_access, api_keys, audit_log, now, last,
                   ncalls>>
    /\ UNCHANGED <<trainingVars, otherVars>>

\* sendSlackDM resolves and requestAPIKey returns
RequestAPIKeyResume(i) ==
    /\ i \in DOMAIN inflight
    /\ inflight[i].op = "requestAPIKey"
    /\ inflight[i].phase = "slack"
    /\ now > inflight[i].since
    /\ inflight' = RemoveAt(inflight, i)
    /\ last' = inflight[i]
    /\ UNCHANGED <<employees, user_access, approval_requests, api_keys,
                   audit_log, now, ncalls>>
    /\ UNCHANGED <<trainingVars, otherVars>>

\* the clock advances
Tick ==
    /\ now < MaxTime
    /\ now' = now + 1
    /\ UNCHANGED <<employees, user_access, approval_requests, api_keys,
                   audit_log, inflight, last, ncalls>>
    /\ UNCHANGED <<trainingVars, otherVars>>

Next ==
    \/ \E route \in Routes, userEmail \in Emails, res \in CoreResources :
          RequestAccessCall(route, userEmail, res[1], res[2])
    \/ \E i \in 1..MaxInflight : RequestAccessResume(i)
    \/ \E userEmail \in Emails, service \in Services,
          environment \in Environments :
          RequestAPIKeyCall(userEmail, service, environment)
    \/ \E i \in 1..MaxInflight : RequestAPIKeyTicket(i)
    \/ \E i \in 1..MaxInflight : RequestAPIKeyResume(i)
    \/ Tick

Spec == Init /\ [][Next]_vars

(***************************************************************************)
(* The same tools with an external service that may fail: the promise of   *)
(* sendSlackDM or createJiraTicket may reject instead of resolving.        *)
(* Neither requestAccess nor requestAPIKey has a try/catch around its      *)
(* awaits, so the rejection leaves the function                            *)
(***************************************************************************)
\* what the caller gets from a tool whose awaited external call rejected
Rejected ==
    [Result(FALSE, FALSE, NoId, "", <<"external call failed">>)
        EXCEPT !.threw = TRUE]

\* the audited route's catch block (logToolExecution 'FAILURE', then
\* `throw error`); the plain route lets the rejection through
ThrowRequestAccess(call) ==
    IF call.route = "audited"
    THEN \E rnd \in RandomSuffixes :
            /\ audit_log' = logEvent(audit_log,
                   logToolExecution(call.userEmail, "requestAccess",
                                    "FAILURE"), rnd, TRUE)
            /\ last' = [call EXCEPT
                           !.result = Rejected,
                           !.audit_rows = Len(audit_log') - Len(audit_log)]
    ELSE /\ audit_log' = audit_log
         /\ last' = [call EXCEPT !.result = Rejected]

\* sendSlackDM rejects in requestAccess (lines 93-100)
RequestAccessSlackFails(i) ==
    /\ i \in DOMAIN inflight
    /\ inflight[i].op = "requestAccess"
    /\ inflight[i].phase = "slack"
    /\ inflight' = RemoveAt(inflight, i)
    /\ ThrowRequestAccess([inflight[i] EXCEPT !.phase = "slack rejected"])
    /\ UNCHANGED <<employees, user_access, approval_requests, api_keys, now,
                   ncalls>>
    /\ UNCHANGED <<trainingVars, otherVars>>

\* createJiraTicket rejects in requestAPIKey (lines 51-60): no request row
\* has been written yet
RequestAPIKeyTicketFails(i) ==
    /\ i \in DOMAIN inflight
    /\ inflight[i].op = "requestAPIKey"
    /\ inflight[i].phase = "jira"
    /\ inflight' = RemoveAt(inflight, i)
    /\ last' = [inflight[i] EXCEPT !.phase = "jira rejected",
                                   !.result = Rejected]
    /\ UNCHANGED <<employees, user_access, approval_requests, api_keys,
                   audit_log, now, ncalls>>
    /\ UNCHANGED <<trainingVars, otherVars>>

\* sendSlackDM rejects in requestAPIKey (lines 78-85), after the request row
\* was written
RequestAPIKeySlackFails(i) ==
    /\ i \in DOMAIN inflight
    /\ inflight[i].op = "requestAPIKey"
    /\ inflight[i].phase = "slack"
    /\ inflight' = RemoveAt(inflight, i)
    /\ last' = [inflight[i] EXCEPT !.phase = "slack rejected",
                                   !.result = Rejected]
    /\ UNCHANGED <<employees, user_access, approval_requests, api_keys,
                   audit_log, now, ncalls>>
    /\ UNCHANGED <<trainingVars, otherVars>>

NextExternal ==
    \/ \E route \in Routes, userEmail \in Emails, res \in CoreResources :
          RequestAccessCall(route, userEmail, res[1], res[2])
    \/ \E i \in 1..MaxInflight : RequestAccessResume(i)
    \/ \E userEmail \in Emails, service \in Services,
          environment \in Environments :
          RequestAPIKeyCall(userEmail, service, environment)
    \/ \E i \in 1..MaxInflight : RequestAPIKeyTicket(i)
    \/ \E i \in 1..MaxInflight : RequestAPIKeyResume(i)
    \/ Tick
    \/ \E i \in 1..MaxInflight : RequestAccessSlackFails(i)
    \/ \E i \in 1..MaxInflight : RequestAPIKeyTicketFails(i)
    \/ \E i \in 1..MaxInflight : RequestAPIKeySlackFails(i)

SpecExternal == Init /\ [][NextExternal]_vars

(***************************************************************************)
(* The policy decision on its own: any requester on any resource, with the *)
(* requester's attributes drawn at the start                               *)
(***************************************************************************)
InitPolicy ==
    /\ employees \in EmployeeTables
    /\ user_access = <<>>
    /\ approval_requests = <<>>
    /\ api_keys = <<>>
    /\ audit_log = <<>>
    /\ now = 0
    /\ inflight = <<>>
    /\ last = NoCall
    /\ ncalls = 0
    /\ user_training = <<>>
    /\ gate = NoGate
    /\ view = NoView
    /\ ip_whitelist = <<>>
    /\ client = ClientStart

Decide(userEmail, resourceType, resourceName) ==
    /\ ncalls < MaxDecisions
    /\ RequestAccessCall("plain", userEmail, resourceType, resourceName)

NextPolicy ==
    \/ \E userEmail \in Emails, res \in Resources :
          Decide(userEmail, res[1], res[2])
    \/ \E i \in 1..MaxInflight : RequestAccessResume(i)
    \/ Tick

SpecPolicy == InitPolicy /\ [][NextPolicy]_vars

(***************************************************************************)
(* The approval requests and their listings: the requests file starts with *)
(* rows of earlier days, requests are submitted and the lists are read     *)
(***************************************************************************)
SeedRow(n, requester, approver, status, created) ==
    [request_id |-> <<"REQ", 0 - n>>, requester_email |-> requester,
     resource_type |-> "database", resource_name |-> "staging_db",
     reason |-> Reason, approver_email |-> approver, status |-> status,
     created_at |-> created,
     resolved_at |-> IF status = "pending" THEN NullDate
                     ELSE DateAt(created + 1),
     ticket_id |-> "null"]

\* rows written before the clock of the model started
SeedRows ==
    { SeedRow(1, "eve", "bob", "approved", 0 - 4),
      SeedRow(2, "eve", "bob", "approved", 0 - 2),
      SeedRow(3, "eve", "bob", "rejected", 0 - 3),
      SeedRow(4, "eve", "bob", "pending", 0 - 1),
      SeedRow(5, "frank", "carol", "pending", 0 - 2) }

RECURSIVE SeedTablesOf(_)
SeedTablesOf(n) ==
    IF n = 0 THEN { <<>> }
    ELSE LET shorter == SeedTablesOf(n - 1)
         IN  shorter \cup
             { Append(t, row) : t \in shorter, row \in SeedRows }

\* files of up to MaxSeed different rows, in any order
SeedTables ==
    { t \in SeedTablesOf(MaxSeed) :
        \A i, j \in DOMAIN t : i # j => t[i] # t[j] }

Approvers == {"bob", "carol", "eve"}

InitWorkflow ==
    /\ employees \in CoreEmployeeTables
    /\ user_access = <<>>
    /\ approval_requests \in SeedTables
    /\ api_keys = <<>>
    /\ audit_log = <<>>
    /\ now = 0
    /\ inflight = <<>>
    /\ last = NoCall
    /\ ncalls = 0
    /\ user_training = <<>>
    /\ gate = NoGate
    /\ view = NoView
    /\ ip_whitelist = <<>>
    /\ client = ClientStart

\* a request for the production database, which needs approval
Submit(userEmail) ==
    /\ ncalls < MaxSubmits
    /\ RequestAccessCall("plain", userEmail, "database", "production_db")

GetPendingApprovals(approverEmail) ==
    /\ view' = ViewRecord("getPendingApprovals", approverEmail,
                          approval_requests,
                          getPendingApprovals(approverEmail))
    /\ UNCHANGED <<employees, user_access, approval_requests, api_keys,
                   audit_log, now, inflight, last, ncalls, ip_whitelist,
                   client>>
    /\ UNCHANGED trainingVars

GetUserRequestHistory(userEmail) ==
    /\ view' = ViewRecord("getUserRequestHistory", userEmail,
                          approval_requests,
                          getUserRequestHistory(userEmail))
    /\ UNCHANGED <<employees, user_access, approval_requests, api_keys,
                   audit_log, now, inflight, last, ncalls, ip_whitelist,
                   client>>
    /\ UNCHANGED trainingVars

NextWorkflow ==
    \/ \E userEmail \in Emails : Submit(userEmail)
    \/ \E i \in 1..MaxInflight : RequestAccessResume(i)
    \/ \E approverEmail \in Approvers : GetPendingApprovals(approverEmail)
    \/ \E userEmail \in Emails : GetUserRequestHistory(userEmail)
    \/ Tick

SpecWorkflow == InitWorkflow /\ [][NextWorkflow]_vars

(***************************************************************************)
(* Resolution of approval requests (Approval Workflow, resolve), built on  *)
(* getRequestDetails, updateCSV and appendToCSV                            *)
(***************************************************************************)
getRequestDetails(requestId) ==
    findOneInCSV(approval_requests,
        {row \in Rows(approval_requests) : row.request_id = requestId})

Decisions == {"approved", "rejected"}

\* the request ids of the rows on file at the start, and one never issued
RequestIds == {row.request_id : row \in SeedRows} \cup { <<"REQ", 0 - 9>> }

\* the grant an approved request stands for
ResolvedGrantRow(request) ==
    [user_email |-> request.requester_email,
     resource_type |-> request.resource_type,
     resource_name |-> request.resource_name, access_level |-> "read_only",
     granted_date |-> now, granted_by |-> request.approver_email,
     expires_at |-> NullDate, status |-> "active"]

\* resolve(requestId, decision): the result and the two files afterwards
resolve(requestId, decision) ==
    LET request == getRequestDetails(requestId)
        same == [user_access |-> user_access,
                 approval_requests |-> approval_requests]
    IN  IF request = <<>>
        THEN [result |-> Result(FALSE, FALSE, requestId, "",
                                <<"NotFound">>)] @@ same
        ELSE IF request[1].status # "pending"
        THEN [result |-> Result(FALSE, FALSE, requestId, "",
                                <<"AlreadyResolved">>)] @@ same
        ELSE [result |-> Result(TRUE, FALSE, requestId,
                                request[1].approver_email, <<>>),
              approval_requests |->
                  updateCSV(approval_requests,
                      {row \in Rows(approval_requests) :
                          row.request_id = requestId},
                      [status |-> decision, resolved_at |-> DateAt(now)]),
              user_access |->
                  IF decision = "approved"
                  THEN appendToCSV(user_access, ResolvedGrantRow(request[1]))
                  ELSE user_access]

InitResolve ==
    /\ employees \in CoreEmployeeTables
    /\ user_access = <<>>
    /\ approval_requests \in SeedTables
    /\ api_keys = <<>>
    /\ audit_log = <<>>
    /\ now = 0
    /\ inflight = <<>>
    /\ last = NoCall
    /\ ncalls = 0
    /\ user_training = <<>>
    /\ gate = NoGate
    /\ view = NoView
    /\ ip_whitelist = <<>>
    /\ client = ClientStart

Resolve(requestId, decision) ==
    LET r == resolve(requestId, decision)
    IN  /\ user_access' = r.user_access
        /\ approval_requests' = r.approval_requests
        /\ last' = [decision |-> decision]
                   @@ CallRecord("resolve", "", "", "", "", r.result,
                                 user_access, r.user_access,
                                 approval_requests, r.approval_requests)
        /\ UNCHANGED <<employees, api_keys, audit_log, now, inflight, ncalls>>
        /\ UNCHANGED <<trainingVars, otherVars>>

NextResolve ==
    \/ \E requestId \in RequestIds, decision \in Decisions :
          Resolve(requestId, decision)
    \/ Tick

SpecResolve == InitResolve /\ [][NextResolve]_vars

(***************************************************************************)
(* searchAuditLogs (lib/tools/audit-viewer.ts): the filter and the total   *)
(***************************************************************************)
\* params.f is set to something truthy
HasParam(params, f) == f \in DOMAIN params

\* the callback of allEvents.filter (lines 55-89)
MatchesSearch(event, params) ==
    /\ HasParam(params, "userEmail") => event.user_email = params.userEmail
    /\ HasParam(params, "startDate") => ~(event.timestamp < params.startDate)
    /\ HasParam(params, "endDate") => ~(event.timestamp > params.endDate)
    /\ HasParam(params, "eventTypes")
          => event.event_type \in params.eventTypes
    /\ HasParam(params, "severity") => event.severity \in params.severity
    /\ HasParam(params, "resourceType")
          => event.resource_type = params.resourceType
    /\ HasParam(params, "resourceName")
          => event.resource_name = params.resourceName

\* total = filteredEvents.length
SearchTotal(log, params) ==
    Len(SelectSeq(log, LAMBDA event : MatchesSearch(event, params)))

\* the filters searched with
SearchParams ==
    { <<>>, [userEmail |-> "eve"], [severity |-> {"HIGH", "CRITICAL"}],
      [userEmail |-> "eve", startDate |-> 1],
      [resourceType |-> "api_key", resourceName |-> "stripe"],
      [eventTypes |-> {"ACCESS_REQUEST"}, endDate |-> 1] }

(***************************************************************************)
(* The audit recorder on its own: logEvent is called directly, through the *)
(* logging methods of AuditLogger and through POST /api/audit.  The append *)
(* of logEvent is appendToCSV: it reads the whole file, is suspended at    *)
(* its await, then writes the file it read with the new row pushed on.     *)
(***************************************************************************)
Severities == {"LOW", "MEDIUM", "HIGH", "CRITICAL"}
ActionResults == {"SUCCESS", "FAILURE", "PENDING"}

\* the records built from one choice of field per set of alternatives
RECURSIVE Combine(_)
Combine(alternatives) ==
    IF alternatives = <<>> THEN { <<>> }
    ELSE { head @@ rest : head \in alternatives[1],
                          rest \in Combine(Tail(alternatives)) }

\* partial events handed to logEvent by a caller: a field is absent,
\* present with the value undefined, or set
DirectEvents ==
    Combine(<< { [user_email |-> "eve", action |-> <<"export_report">>,
                  description |-> <<"report exported">>] },
               { <<>>, [severity |-> Undef], [severity |-> "HIGH"] },
               { <<>>, [action_result |-> Undef] } >>)

\* JSON bodies a client posts to /api/audit
Bodies ==
    Combine(<< { [user_email |-> "eve", action |-> <<"form_submit">>,
                  description |-> <<"form submitted">>],
                 [user_email |-> "eve", action |-> <<"form_submit">>] },
               { <<>>, [severity |-> "CRITICAL"] },
               { [risk_score |-> 55], [risk_score |-> 150] } >>)

\* body.f, undefined when the body has no such key
BodyField(body, f, undefined) ==
    IF f \in DOMAIN body THEN body[f] ELSE undefined

\* body.f || fallback
BodyOr(body, f, fallback) ==
    IF f \in DOMAIN body /\ body[f] # "" THEN body[f] ELSE fallback

\* the event POST /api/audit builds from the body (lines 24-53)
RouteEvent(body) ==
    [event_type |-> BodyOr(body, "event_type", "SYSTEM_ACCESS"),
     severity |-> BodyOr(body, "severity", "LOW"),
     user_email |-> body.user_email,
     resource_type |-> BodyField(body, "resource_type", Undef),
     resource_name |-> BodyField(body, "resource_name", Undef),
     action |-> body.action,
     action_result |-> BodyOr(body, "action_result", "SUCCESS"),
     description |-> body.description,
     risk_score |-> BodyField(body, "risk_score", UndefNum)]

\* !body.user_email || !body.action || !body.description
MissingRequired(body) ==
    \/ "user_email" \notin DOMAIN body \/ body.user_email = ""
    \/ "action" \notin DOMAIN body \/ body.action = <<>>
    \/ "description" \notin DOMAIN body \/ body.description = <<>>

\* a call of logEvent suspended in appendToCSV between its readCSV and its
\* writeCSV: the partial event, the flattened row and the file it read
AppendRecord(op, event, rnd) ==
    [op |-> op, phase |-> "append", event |-> event,
     row |-> flattenEvent(MergeEvent(event, rnd)), data |-> audit_log,
     since |-> now]

InitAudit ==
    /\ employees = <<>>
    /\ user_access = <<>>
    /\ approval_requests = <<>>
    /\ api_keys = <<>>
    /\ audit_log = <<>>
    /\ now = 0
    /\ inflight = <<>>
    /\ last = NoCall
    /\ ncalls = 0
    /\ user_training = <<>>
    /\ gate = NoGate
    /\ view = NoView
    /\ ip_whitelist = <<>>
    /\ client = ClientStart

\* logEvent up to the await of appendToCSV (lines 111-125, csv-helper 145)
LogEventStart(op, event) ==
    /\ ncalls < MaxLogs
    /\ Len(inflight) < MaxInflight
    /\ ncalls' = ncalls + 1
    /\ \E rnd \in RandomSuffixes :
          inflight' = Append(inflight, AppendRecord(op, event, rnd))
    /\ UNCHANGED <<employees, user_access, approval_requests, api_keys,
                   audit_log, now, last>>
    /\ UNCHANGED <<trainingVars, otherVars>>

\* appendToCSV resumes: data.push(row); writeCSV(filename, data); logEvent
\* returns
LogEventWrite(i) ==
    /\ i \in DOMAIN inflight
    /\ inflight[i].phase = "append"
    /\ audit_log' = Append(inflight[i].data, inflight[i].row)
    /\ inflight' = RemoveAt(inflight, i)
    /\ last' = [op |-> inflight[i].op, event |-> inflight[i].event,
                row |-> inflight[i].row, since |-> inflight[i].since,
                pre_log |-> audit_log, post_log |-> audit_log']
    /\ UNCHANGED <<employees, user_access, approval_requests, api_keys, now,
                   ncalls>>
    /\ UNCHANGED <<trainingVars, otherVars>>

\* POST /api/audit: 400 without logging when a required field is missing
PostAudit(body) ==
    IF MissingRequired(body)
    THEN /\ last' = [op |-> "postAudit", status |-> 400]
         /\ UNCHANGED <<employees, user_access, approval_requests, api_keys,
                        audit_log, now, inflight, ncalls>>
         /\ UNCHANGED <<trainingVars, otherVars>>
    ELSE LogEventStart("postAudit", RouteEvent(body))

\* the requests logAccessRequest is called for: requester and resource
AuditRequests ==
    { <<"ivy.intern", "database", "production_db">>,
      <<"eve", "api_key", "stripe">>, <<"eve", "tool", "wiki">> }

Addresses == {"10.0.0.5", "203.0.113.7"}

NextAudit ==
    \/ \E event \in DirectEvents : LogEventStart("logEvent", event)
    \/ \E body \in Bodies : PostAudit(body)
    \/ \E req \in AuditRequests :
          LogEventStart("logAccessRequest",
              logAccessRequest(req[1], req[2], req[3], Reason, "PENDING"))
    \/ \E severity \in {"CRITICAL", "MEDIUM"} :
          LogEventStart("logSecurityEvent",
              logSecurityEvent("eve", <<"ip_whitelist_denied">>,
                               <<"IP whitelist denied">>, severity))
    \/ \E ipAddress \in Addresses :
          LogEventStart("logIPWhitelist",
              logIPWhitelist("eve", ipAddress, "WHITELISTED", "SUCCESS"))
    \/ \E i \in 1..MaxInflight : LogEventWrite(i)
    \/ Tick

SpecAudit == InitAudit /\ [][NextAudit]_vars

(***************************************************************************)
(* whitelistIP (lib/tools/network.ts)                                      *)
(***************************************************************************)
\* logEvent rejecting when its append failed (a catch block that rethrows)
logEventRethrows(stored) == ~stored

\* whether logEvent rejects: the try/catch of lines 124-138 only prints
logEventThrows(stored) == FALSE

checkIPWhitelist(ip) ==
    findOneInCSV(ip_whitelist,
        {row \in Rows(ip_whitelist) :
            row.ip_address = ip /\ row.status = "active"}) # <<>>

WhitelistRow(userEmail, ip, reason) ==
    [ip_address |-> ip, user_email |-> userEmail, location |-> "Unknown",
     added_date |-> DateAt(now), added_by |-> "auto", status |-> "active",
     expires_at |-> NullDate, reason |-> reason]

WhitelistResult(success, ip, error) ==
    [threw |-> FALSE, success |-> success, ip |-> ip, error |-> error]

WhitelistThrown == [threw |-> TRUE, success |-> FALSE, ip |-> "", error |-> <<>>]

\* the event of the closing logEvent call (lines 126-143)
WhitelistedEvent(userEmail, ip) ==
    [user_email |-> userEmail, resource_type |-> "network",
     resource_name |-> "vpn_whitelist",
     action |-> <<"ip_address_whitelisted">>, action_result |-> "SUCCESS",
     description |-> <<"IP address", ip, "whitelisted for VPN access">>]

\* the awaited audit calls of one run, in order: each is an event and
\* whether its append got through; the run stops at a call that rejects
RECURSIVE AuditCalls(_, _, _, _, _)
AuditCalls(log, events, stored, rnd, k) ==
    IF k > Len(events) THEN [log |-> log, threw |-> FALSE]
    ELSE IF logEventThrows(stored[k])
    THEN [log |-> logEvent(log, events[k], rnd, stored[k]), threw |-> TRUE]
    ELSE AuditCalls(logEvent(log, events[k], rnd, stored[k]), events,
                    stored, rnd, k + 1)

\* whitelistIP: the result and the two files afterwards.  stored[k] tells
\* whether the append of the k-th audit call got through.
whitelistIP(userEmail, ip, reason, rnd, stored) ==
    LET pending == logIPWhitelist(userEmail, ip, "WHITELISTED", "PENDING")
        failure == logIPWhitelist(userEmail, ip, "WHITELISTED", "FAILURE")
        success == logIPWhitelist(userEmail, ip, "WHITELISTED", "SUCCESS")
        first == AuditCalls(audit_log, <<pending>>, stored, rnd, 1)
        user == findOneInCSV(employees,
                    {row \in Rows(employees) : row.email = userEmail})
        denied == logSecurityEvent(userEmail, <<"ip_whitelist_denied">>,
                      <<"IP whitelist denied for", userEmail>>, "MEDIUM")
        run(events, result, whitelist) ==
            LET calls == AuditCalls(audit_log, events, stored, rnd, 1)
            IN  [result |-> IF calls.threw THEN WhitelistThrown ELSE result,
                 ip_whitelist |-> whitelist, audit_log |-> calls.log]
    IN  IF first.threw
        THEN run(<<pending>>, WhitelistThrown, ip_whitelist)
        ELSE IF user = <<>>
        THEN run(<<pending, failure>>,
                 WhitelistResult(FALSE, "", <<"User not found">>),
                 ip_whitelist)
        ELSE IF user[1].security_training_complete # "true"
        THEN run(<<pending, failure, denied>>,
                 WhitelistResult(FALSE, "",
                     <<"Security training required before IP whitelisting">>),
                 ip_whitelist)
        ELSE IF checkIPWhitelist(ip)
        THEN run(<<pending, failure>>,
                 WhitelistResult(FALSE, "",
                     <<"IP", ip, "is already whitelisted">>),
                 ip_whitelist)
        ELSE run(<<pending, success, WhitelistedEvent(userEmail, ip)>>,
                 WhitelistResult(TRUE, ip, <<>>),
                 appendToCSV(ip_whitelist,
                             WhitelistRow(userEmail, ip, reason)))

(***************************************************************************)
(* searchAuditLogs: sort, total and pagination                             *)
(***************************************************************************)
\* one step of the stable sort under
\* new Date(b.timestamp).getTime() - new Date(a.timestamp).getTime()
InsertByTimestamp(sorted, event) ==
    LET before == {i \in DOMAIN sorted :
                      \A j \in 1..i : sorted[j].timestamp >= event.timestamp}
        k == Cardinality(before)
    IN  SubSeq(sorted, 1, k) \o <<event>>
            \o SubSeq(sorted, k + 1, Len(sorted))

RECURSIVE SortByTimestamp(_)
SortByTimestamp(events) ==
    IF events = <<>> THEN <<>>
    ELSE InsertByTimestamp(
             SortByTimestamp(SubSeq(events, 1, Len(events) - 1)),
             events[Len(events)])

\* Array.prototype.slice(start, end) for start, end >= 0
Slice(seq, start, end) == SubSeq(seq, start + 1, MinOf(end, Len(seq)))

DefaultLimit == 50

\* params.f || dflt for a numeric f: 0 is falsy
NumberOr(params, f, dflt) ==
    IF f \in DOMAIN params /\ params[f] # 0 THEN params[f] ELSE dflt

searchAuditLogs(log, params) ==
    LET filteredEvents ==
            SortByTimestamp(
                SelectSeq(log, LAMBDA event : MatchesSearch(event, params)))
        total == Len(filteredEvents)
        offset == NumberOr(params, "offset", 0)
        limit == NumberOr(params, "limit", DefaultLimit)
    IN  [events |-> Slice(filteredEvents, offset, offset + limit),
         total |-> total,
         hasMore |-> offset + limit < total]

\* the pagination a caller supplies
Pagings ==
    { <<>>, [limit |-> 1], [limit |-> 1, offset |-> 1], [limit |-> 0],
      [offset |-> 2] }

\* logEvent run to its end without another call in between
Record(event) ==
    /\ ncalls < MaxLogs
    /\ ncalls' = ncalls + 1
    /\ \E rnd \in RandomSuffixes :
          audit_log' = logEvent(audit_log, event, rnd, TRUE)
    /\ UNCHANGED <<employees, user_access, approval_requests, api_keys, now,
                   inflight, last>>
    /\ UNCHANGED <<trainingVars, otherVars>>

SearchAuditLogs(params, paging) ==
    /\ view' = [at |-> now] @@
               ViewRecord("searchAuditLogs", paging @@ params, audit_log,
                          searchAuditLogs(audit_log, paging @@ params))
    /\ UNCHANGED <<employees, user_access, approval_requests, api_keys,
                   audit_log, now, inflight, last, ncalls, ip_whitelist,
                   client>>
    /\ UNCHANGED trainingVars

NextSearch ==
    \/ \E req \in AuditRequests :
          Record(logAccessRequest(req[1], req[2], req[3], Reason, "PENDING"))
    \/ Record(logSecurityEvent("eve", <<"ip_whitelist_denied">>,
                               <<"IP whitelist denied">>, "CRITICAL"))
    \/ \E params \in SearchParams, paging \in Pagings :
          SearchAuditLogs(params, paging)
    \/ Tick

SpecSearch == InitAudit /\ [][NextSearch]_vars

(***************************************************************************)
(* The scoring helpers of the client audit logger (lib/audit-client.ts)    *)
(* and of the server one, applied to any resource and requester            *)
(***************************************************************************)
\* ClientAuditLogger.getSeverityForResource without the stripe rule
clientSeverityNoStripe(resourceType, resourceName) ==
    IF StrIncludes(resourceName, "production")
       \/ StrIncludes(resourceName, "prod")
    THEN "HIGH"
    ELSE IF resourceType = "database" \/ resourceType = "api_key"
    THEN "MEDIUM"
    ELSE "LOW"

\* ClientAuditLogger.getSeverityForResource
clientGetSeverityForResource(resourceType, resourceName) ==
    IF StrIncludes(resourceName, "production")
       \/ StrIncludes(resourceName, "prod")
    THEN "HIGH"
    ELSE IF resourceType = "api_key" /\ resourceName = "stripe" THEN "HIGH"
    ELSE IF resourceType = "database" \/ resourceType = "api_key"
    THEN "MEDIUM"
    ELSE "LOW"

\* ClientAuditLogger.calculateRiskScore without the intern term
clientRiskNoIntern(resourceType, resourceName, userEmail) ==
    MinOf(10
          + (IF StrIncludes(resourceName, "production") THEN 40 ELSE 0)
          + (IF resourceType = "database" THEN 30 ELSE 0)
          + (IF resourceType = "api_key" THEN 25 ELSE 0)
          + (IF resourceName = "stripe" THEN 35 ELSE 0),
          100)

\* ClientAuditLogger.calculateRiskScore
clientCalculateRiskScore(resourceType, resourceName, userEmail) ==
    MinOf(10
          + (IF StrIncludes(resourceName, "production") THEN 40 ELSE 0)
          + (IF resourceType = "database" THEN 30 ELSE 0)
          + (IF resourceType = "api_key" THEN 25 ELSE 0)
          + (IF resourceName = "stripe" THEN 35 ELSE 0)
          + (IF StrIncludes(userEmail, "intern") THEN 20 ELSE 0),
          100)

ScoredTypes == {"database", "api_key", "tool", "cloud"}

ScoredNames == {"production_db", "prod_cache", "stripe", "staging_db", "wiki"}

ScoredEmails == {"eve", "ivy.intern"}

Loggers == {"server", "client"}

SeverityForResource(logger, resourceType, resourceName) ==
    /\ view' = ViewRecord("getSeverityForResource",
                   <<logger, resourceType, resourceName>>, <<>>,
                   IF logger = "server"
                   THEN getSeverityForResource(resourceType, resourceName)
                   ELSE clientGetSeverityForResource(resourceType,
                                                     resourceName))
    /\ UNCHANGED <<employees, user_access, approval_requests, api_keys,
                   audit_log, now, inflight, last, ncalls, ip_whitelist,
                   client>>
    /\ UNCHANGED trainingVars

RiskScore(logger, resourceType, resourceName, userEmail) ==
    /\ view' = ViewRecord("calculateRiskScore",
                   <<logger, resourceType, resourceName, userEmail>>, <<>>,
                   IF logger = "server"
                   THEN calculateRiskScore(resourceType, resourceName,
                                           userEmail)
                   ELSE clientCalculateRiskScore(resourceType, resourceName,
                                                 userEmail))
    /\ UNCHANGED <<employees, user_access, approval_requests, api_keys,
                   audit_log, now, inflight, last, ncalls, ip_whitelist,
                   client>>
    /\ UNCHANGED trainingVars

NextScoring ==
    \/ \E logger \in Loggers, resourceType \in ScoredTypes,
          resourceName \in ScoredNames :
          SeverityForResource(logger, resourceType, resourceName)
    \/ \E logger \in Loggers, resourceType \in ScoredTypes,
          resourceName \in ScoredNames, userEmail \in ScoredEmails :
          RiskScore(logger, resourceType, resourceName, userEmail)

SpecScoring == InitAudit /\ [][NextScoring]_vars

(***************************************************************************)
(* IP whitelisting on its own: whitelistIP is called for any user and      *)
(* address, and each of its audit appends may fail                         *)
(***************************************************************************)
\* frank has not completed the security training
WhitelistEmployees ==
    << Employee("eve", "Engineer", "Backend", "bob", "true"),
       [Employee("frank", "Senior", "Frontend", "carol", "true")
            EXCEPT !.security_training_complete = "false"] >>

\* which of the audit appends of one call get through
AllStored == <<TRUE, TRUE, TRUE>>

StoredFlags == {AllStored, <<FALSE, FALSE, FALSE>>, <<TRUE, FALSE, TRUE>>}

InitWhitelist ==
    /\ employees = WhitelistEmployees
    /\ user_access = <<>>
    /\ approval_requests = <<>>
    /\ api_keys = <<>>
    /\ audit_log = <<>>
    /\ now = 0
    /\ inflight = <<>>
    /\ last = NoCall
    /\ ncalls = 0
    /\ user_training = <<>>
    /\ gate = NoGate
    /\ view = NoView
    /\ ip_whitelist = <<>>
    /\ client = ClientStart

WhitelistIP(userEmail, ip, stored) ==
    /\ ncalls < MaxWhitelists
    /\ ncalls' = ncalls + 1
    /\ \E rnd \in RandomSuffixes :
          LET run == whitelistIP(userEmail, ip, Reason, rnd, stored)
          IN  /\ ip_whitelist' = run.ip_whitelist
              /\ audit_log' = run.audit_log
              /\ last' = [op |-> "whitelistIP", userEmail |-> userEmail,
                          ip |-> ip, stored |-> stored, rnd |-> rnd,
                          result |-> run.result,
                          pre_whitelist |-> ip_whitelist,
                          pre_log |-> audit_log]
    /\ UNCHANGED <<employees, user_access, approval_requests, api_keys, now,
                   inflight, trainingVars, view, client>>

NextWhitelist ==
    \/ \E userEmail \in Emails, ip \in Addresses, stored \in StoredFlags :
          WhitelistIP(userEmail, ip, stored)
    \/ Tick

SpecWhitelist == InitWhitelist /\ [][NextWhitelist]_vars

(***************************************************************************)
(* Reading grants: checkUserAccess and validateUserPermission              *)
(* (lib/tools/access.ts) on a user_access.csv that holds grants with and   *)
(* without an expiry date                                                  *)
(***************************************************************************)
\* access.access_level.includes(action)
LevelIncludes(level, action) ==
    CASE level = "read_only" -> action \in {"read"}
      [] level = "read_write" -> action \in {"read", "write"}
      [] level = "admin" -> action \in {"admin"}
      [] OTHER -> FALSE

Permission(hasPermission, reason) ==
    [hasPermission |-> hasPermission, reason |-> reason]

validateUserPermission(userEmail, resourceType, resourceName, action) ==
    LET user == findOneInCSV(employees,
                    {row \in Rows(employees) : row.email = userEmail})
        userAccess == checkUserAccess(userEmail)
        hasDirectAccess ==
            \E i \in DOMAIN userAccess :
               /\ userAccess[i].resource_type = resourceType
               /\ userAccess[i].resource_name = resourceName
               /\ \/ action = "read"
                  \/ userAccess[i].access_level = "admin"
                  \/ LevelIncludes(userAccess[i].access_level, action)
        policy == findOneInCSV(access_policies,
                      {row \in Rows(access_policies) :
                          /\ row.resource_type = resourceType
                          /\ row.resource_name = resourceName})
    IN  IF user = <<>>
        THEN Permission(FALSE, "User not found in system")
        ELSE IF user[1].security_training_complete # "true"
        THEN Permission(FALSE, "Security training must be completed")
        ELSE IF hasDirectAccess THEN Permission(TRUE, "")
        ELSE IF policy = <<>>
        THEN Permission(FALSE, "No access policy defined")
        ELSE IF /\ \/ action = "write"
                   \/ action = "admin"
                   \/ StrIncludes(resourceName, "production")
                /\ policy[1].required_role # user[1].role
        THEN Permission(FALSE, "Insufficient role")
        ELSE Permission(FALSE, "No direct access found")

\* a row of user_access.csv as the file may hold it
StoredGrant(userEmail, resourceType, resourceName, level, status, expires) ==
    [user_email |-> userEmail, resource_type |-> resourceType,
     resource_name |-> resourceName, access_level |-> level,
     granted_date |-> 0, granted_by |-> "auto", expires_at |-> expires,
     status |-> status]

StoredGrants ==
    { StoredGrant("eve", "database", "production_db", "read_only", "active",
                  DateAt(1)),
      StoredGrant("eve", "tool", "wiki", "read_write", "active", NullDate),
      StoredGrant("eve", "cloud", "aws_dev", "admin", "revoked", NullDate),
      StoredGrant("frank", "database", "production_db", "admin", "active",
                  DateAt(2)) }

GrantTables ==
    UNION { {t \in [1..n -> StoredGrants] :
                \A i, j \in 1..n : i # j => t[i] # t[j]} : n \in 0..MaxGrants }

GrantResources ==
    { <<"database", "production_db">>, <<"tool", "wiki">>,
      <<"tool", "unknown">> }

PermissionActions == {"read", "write"}

InitGrants ==
    /\ employees = WhitelistEmployees
    /\ user_access \in GrantTables
    /\ approval_requests = <<>>
    /\ api_keys = <<>>
    /\ audit_log = <<>>
    /\ now = 0
    /\ inflight = <<>>
    /\ last = NoCall
    /\ ncalls = 0
    /\ user_training = <<>>
    /\ gate = NoGate
    /\ view = NoView
    /\ ip_whitelist = <<>>
    /\ client = ClientStart

CheckUserAccess(userEmail) ==
    /\ view' = [at |-> now] @@
               ViewRecord("checkUserAccess", <<userEmail>>, user_access,
                          checkUserAccess(userEmail))
    /\ UNCHANGED <<employees, user_access, approval_requests, api_keys,
                   audit_log, now, inflight, last, ncalls, ip_whitelist,
                   client>>
    /\ UNCHANGED trainingVars

ValidateUserPermission(userEmail, resourceType, resourceName, action) ==
    /\ view' = [at |-> now] @@
               ViewRecord("validateUserPermission",
                          <<userEmail, resourceType, resourceName, action>>,
                          user_access,
                          validateUserPermission(userEmail, resourceType,
                                                 resourceName, action))
    /\ UNCHANGED <<employees, user_access, approval_requests, api_keys,
                   audit_log, now, inflight, last, ncalls, ip_whitelist,
                   client>>
    /\ UNCHANGED trainingVars

NextGrants ==
    \/ \E userEmail \in Emails : CheckUserAccess(userEmail)
    \/ \E userEmail \in Emails, res \in GrantResources,
          action \in PermissionActions :
          ValidateUserPermission(userEmail, res[1], res[2], action)
    \/ Tick

SpecGrants == InitGrants /\ [][NextGrants]_vars

(***************************************************************************)
(* The policy decision on policies whose condition text is irregular       *)
(***************************************************************************)
ConditionResources ==
    { <<"database", "production_db">>, <<"cloud", "aws_dev">>,
      <<"tool", "badge">>, <<"tool", "vpn">>, <<"tool", "mail">>,
      <<"tool", "chat">>, <<"tool", "unknown">> }

NextConditions ==
    \/ \E userEmail \in Emails, res \in ConditionResources :
          Decide(userEmail, res[1], res[2])
    \/ \E i \in 1..MaxInflight : RequestAccessResume(i)
    \/ Tick

SpecConditions == InitPolicy /\ [][NextConditions]_vars

(***************************************************************************)
(* whitelistIP step by step: calls overlap at its awaits.  A call checks   *)
(* the whitelist (lines 66-107), then appendToCSV reads the file (csv-     *)
(* helper line 145) and, after its await, writes the file it read with the *)
(* new row pushed on (lines 146-147)                                       *)
(***************************************************************************)
WhitelistCall(userEmail, ip, phase, data) ==
    [op |-> "whitelistIP", userEmail |-> userEmail, ip |-> ip,
     phase |-> phase, data |-> data, since |-> now]

WhitelistReturn(call, result, before) ==
    [op |-> "whitelistIP", userEmail |-> call.userEmail, ip |-> call.ip,
     stored |-> AllStored, rnd |-> "", result |-> result,
     pre_whitelist |-> before, pre_log |-> audit_log]

\* lines 66-107: the audit row of the attempt, the user and training tests
\* and checkIPWhitelist; a rejected call returns here
WhitelistCheck(userEmail, ip) ==
    /\ ncalls < MaxWhitelists
    /\ ncalls' = ncalls + 1
    /\ \E rnd \in RandomSuffixes :
          LET run == whitelistIP(userEmail, ip, Reason, rnd, AllStored)
              call == WhitelistCall(userEmail, ip, "checked", <<>>)
          IN  IF run.result.success
              THEN /\ Len(inflight) < MaxInflight
                   /\ inflight' = Append(inflight, call)
                   /\ audit_log' = logEvent(audit_log,
                          logIPWhitelist(userEmail, ip, "WHITELISTED",
                                         "PENDING"), rnd, TRUE)
                   /\ UNCHANGED last
              ELSE /\ audit_log' = run.audit_log
                   /\ last' = WhitelistReturn(call, run.result, ip_whitelist)
                   /\ UNCHANGED inflight
    /\ UNCHANGED <<employees, user_access, approval_requests, api_keys, now,
                   ip_whitelist, trainingVars, view, client>>

\* appendToCSV: const data = await readCSV(filename)
WhitelistRead(i) ==
    /\ i \in DOMAIN inflight
    /\ inflight[i].op = "whitelistIP"
    /\ inflight[i].phase = "checked"
    /\ inflight' = [inflight EXCEPT ![i] =
           [@ EXCEPT !.phase = "read", !.data = ip_whitelist]]
    /\ UNCHANGED <<employees, user_access, approval_requests, api_keys,
                   audit_log, now, last, ncalls, ip_whitelist, trainingVars,
                   view, client>>

\* data.push(row); await writeCSV(filename, data); then the two audit rows
\* of lines 124-143 and the return
WhitelistWrite(i) ==
    /\ i \in DOMAIN inflight
    /\ inflight[i].op = "whitelistIP"
    /\ inflight[i].phase = "read"
    /\ LET call == inflight[i]
       IN  /\ ip_whitelist' = Append(call.data,
                  WhitelistRow(call.userEmail, call.ip, Reason))
           /\ \E rnd \in RandomSuffixes :
                 audit_log' =
                    logEvent(
                        logEvent(audit_log,
                            logIPWhitelist(call.userEmail, call.ip,
                                           "WHITELISTED", "SUCCESS"),
                            rnd, TRUE),
                        WhitelistedEvent(call.userEmail, call.ip), rnd, TRUE)
           /\ last' = WhitelistReturn(call,
                          WhitelistResult(TRUE, call.ip, <<>>), ip_whitelist)
    /\ inflight' = RemoveAt(inflight, i)
    /\ UNCHANGED <<employees, user_access, approval_requests, api_keys, now,
                   ncalls, trainingVars, view, client>>

NextWhitelistRace ==
    \/ \E userEmail \in Emails, ip \in Addresses :
          WhitelistCheck(userEmail, ip)
    \/ \E i \in 1..MaxInflight : WhitelistRead(i)
    \/ \E i \in 1..MaxInflight : WhitelistWrite(i)
    \/ Tick

SpecWhitelistRace == InitWhitelist /\ [][NextWhitelistRace]_vars

(***************************************************************************)
(* ClientAuditLogger (lib/audit-client.ts) in one browser page.  An event  *)
(* is known by the number of the logEvent call that passed it.  A send is  *)
(* answered ok when the page is connected and the server accepts requests. *)
(***************************************************************************)
serverVars ==
    <<employees, user_access, approval_requests, api_keys, audit_log, now,
      inflight, last, user_training, gate, view, ip_whitelist>>

\* flushPendingEvents leaving the queue as it is after copying it
flushKeepsQueue(pendingEvents) == pendingEvents

\* this.pendingEvents = [] (line 188)
flushClearsQueue(pendingEvents) == <<>>

\* sendEventToServer: response.ok, false when fetch throws (lines 164-179)
sendEventToServer == client.isOnline /\ client.serverUp

Acknowledged(event, by) == [event |-> event, by |-> by]

\* one more result of a logEvent call in the table of the results
Returns(returned, event, value) ==
    [e \in DOMAIN returned \cup {event} |->
        IF e = event THEN value ELSE returned[e]]

\* logEvent up to its await of sendEventToServer, or to its return when the
\* page is offline (lines 120-159)
ClientLogEvent ==
    /\ ncalls < MaxEvents
    /\ ncalls' = ncalls + 1
    /\ LET event == ncalls + 1
       IN  IF client.isOnline
           THEN client' = [client EXCEPT !.sends = @ \cup {event}]
           ELSE client' = [client EXCEPT
                              !.pendingEvents = Append(@, event),
                              !.returned = Returns(@, event, FALSE)]
    /\ UNCHANGED serverVars

\* the send of a logEvent call is answered (lines 142-149)
ClientSendReturns(event) ==
    /\ event \in client.sends
    /\ IF sendEventToServer
       THEN client' = [client EXCEPT
                          !.sends = @ \ {event},
                          !.acked = Append(@, Acknowledged(event, "logEvent")),
                          !.returned = Returns(@, event, TRUE)]
       ELSE client' = [client EXCEPT
                          !.sends = @ \ {event},
                          !.pendingEvents = Append(@, event),
                          !.returned = Returns(@, event, FALSE)]
    /\ UNCHANGED <<serverVars, ncalls>>

\* the 'online' listener (lines 100-103): isOnline = true, then
\* flushPendingEvents up to its first await (lines 184-191)
ClientOnline ==
    /\ ~client.isOnline
    /\ IF client.pendingEvents = <<>>
       THEN client' = [client EXCEPT !.isOnline = TRUE]
       ELSE client' = [client EXCEPT
                          !.isOnline = TRUE,
                          !.flushes = Append(@, client.pendingEvents),
                          !.pendingEvents = flushClearsQueue(@)]
    /\ UNCHANGED <<serverVars, ncalls>>

\* the 'offline' listener (lines 104-106)
ClientOffline ==
    /\ client.isOnline
    /\ client' = [client EXCEPT !.isOnline = FALSE]
    /\ UNCHANGED <<serverVars, ncalls>>

\* one turn of the loop of flushPendingEvents (lines 190-196): the send of
\* the event at the head of the copy is answered
ClientFlushReturns(k) ==
    /\ k \in DOMAIN client.flushes
    /\ LET event == Head(client.flushes[k])
           rest == Tail(client.flushes[k])
           left == IF rest = <<>> THEN RemoveAt(client.flushes, k)
                   ELSE [client.flushes EXCEPT ![k] = rest]
       IN  IF sendEventToServer
           THEN client' = [client EXCEPT
                              !.flushes = left,
                              !.acked = Append(@, Acknowledged(event, "flush"))]
           ELSE client' = [client EXCEPT
                              !.flushes = left,
                              !.pendingEvents = Append(@, event)]
    /\ UNCHANGED <<serverVars, ncalls>>

\* the server stops or starts accepting requests
ServerTurns ==
    /\ client' = [client EXCEPT !.serverUp = ~@]
    /\ UNCHANGED <<serverVars, ncalls>>

InitClient == InitAudit

ClientResponses ==
    \/ \E event \in 1..MaxEvents : ClientSendReturns(event)
    \/ \E k \in 1..MaxEvents : ClientFlushReturns(k)

NextClient ==
    \/ ClientLogEvent
    \/ \E event \in 1..MaxEvents : ClientSendReturns(event)
    \/ ClientOnline
    \/ ClientOffline
    \/ \E k \in 1..MaxEvents : ClientFlushReturns(k)
    \/ ServerTurns

SpecClient == InitClient /\ [][NextClient]_vars

\* every send is answered in the end; nothing else is promised: the page may
\* stay online or offline, and the server up or down, for ever
SpecClientFair == SpecClient /\ WF_vars(ClientResponses)

(***************************************************************************)
(* The training gate on its own: the training file is drawn at the start,  *)
(* the clock runs, and the gate is asked about any user and resource       *)
(***************************************************************************)
InitTraining ==
    /\ employees \in CoreEmployeeTables
    /\ user_access = <<>>
    /\ approval_requests = <<>>
    /\ api_keys = <<>>
    /\ audit_log = <<>>
    /\ now = 0
    /\ inflight = <<>>
    /\ last = NoCall
    /\ ncalls = 0
    /\ user_training \in TrainingTables
    /\ gate = NoGate
    /\ view = NoView
    /\ ip_whitelist = <<>>
    /\ client = ClientStart

\* the checkUserTrainingStatus tool: a read that returns its result
CheckUserTrainingStatus(userEmail, resourceType, resourceName) ==
    /\ gate' = [op |-> "checkUserTrainingStatus", userEmail |-> userEmail,
                resourceType |-> resourceType,
                resourceName |-> resourceName, at |-> now,
                result |-> checkUserTrainingStatus(userEmail, resourceType,
                                                   resourceName),
                prev |-> GateCall(gate.op, gate.userEmail,
                                  gate.resourceType, gate.resourceName,
                                  gate.at, gate.result)]
    /\ UNCHANGED <<employees, user_access, approval_requests, api_keys,
                   audit_log, now, inflight, last, ncalls, user_training>>
    /\ UNCHANGED otherVars

NextTraining ==
    \/ \E userEmail \in Emails, res \in TrainingResources :
          CheckUserTrainingStatus(userEmail, res[1], res[2])
    \/ Tick

SpecTraining == InitTraining /\ [][NextTraining]_vars

(***************************************************************************)
(* hasSecurityTraining (lib/tools/api-keys.ts) next to the training gate   *)
(***************************************************************************)
\* new Date(expires_at) >= new Date(): false when expires_at is not a date
NotYetExpired(expires_at) ==
    IF expires_at.k = "date" THEN expires_at.t >= now ELSE FALSE

hasSecurityTraining(userEmail) ==
    LET userTraining ==
            findOneInCSV(user_training,
                {row \in Rows(user_training) :
                    /\ row.user_email = userEmail
                    /\ row.training_id = "security_training"
                    /\ row.completed = "true"})
    IN  IF userTraining = <<>> THEN FALSE
        ELSE IF userTraining[1].expires_at.k # "empty"
        THEN NotYetExpired(userTraining[1].expires_at)
        ELSE TRUE

HasSecurityTraining(userEmail) ==
    /\ view' = [at |-> now] @@
               ViewRecord("hasSecurityTraining", userEmail, user_training,
                          hasSecurityTraining(userEmail))
    /\ UNCHANGED <<employees, user_access, approval_requests, api_keys,
                   audit_log, now, inflight, last, ncalls, ip_whitelist,
                   client>>
    /\ UNCHANGED trainingVars

NextSecurityTraining ==
    \/ \E userEmail \in Emails : HasSecurityTraining(userEmail)
    \/ \E userEmail \in Emails :
          CheckUserTrainingStatus(userEmail, "cloud", "aws_dev")
    \/ Tick

SpecSecurityTraining == InitTraining /\ [][NextSecurityTraining]_vars

(***************************************************************************)
(* Vocabulary of the properties                                            *)
(***************************************************************************)
HasPolicy(resourceType, resourceName) ==
    \E i \in DOMAIN access_policies :
        /\ access_policies[i].resource_type = resourceType
        /\ access_policies[i].resource_name = resourceName

PolicyOf(resourceType, resourceName) ==
    CHOOSE p \in {access_policies[i] : i \in DOMAIN access_policies} :
        p.resource_type = resourceType /\ p.resource_name = resourceName

HasEmployee(email) == \E i \in DOMAIN employees : employees[i].email = email

EmployeeOf(email) ==
    CHOOSE e \in {employees[i] : i \in DOMAIN employees} : e.email = email

ReasonCode(error) ==
    IF error = <<>> THEN ""
    ELSE CASE error[1] = "No policy found for" -> "NO_POLICY"
           [] error[1] = "User not found" -> "USER_NOT_FOUND"
           [] error[1] = "Auto-approval conditions not met. Required:"
                -> "CONDITIONS_NOT_MET"
           [] OTHER -> ""

IsPendingApproval(r) == ~r.threw /\ r.success /\ r.requiresApproval
IsAutoGranted(r) == ~r.threw /\ r.success /\ ~r.requiresApproval
IsDenied(r, code) == ~r.threw /\ ~r.success /\ ReasonCode(r.error) = code

\* the last call that returned was requestAccess by a known requester on a
\* resource that has a policy
ReturnedAccessCall ==
    /\ last.op = "requestAccess"
    /\ HasEmployee(last.userEmail)
    /\ HasPolicy(last.resourceType, last.resourceName)

LastPolicy == PolicyOf(last.resourceType, last.resourceName)

\* seq is pre with exactly one row added at the end
AppendsOne(pre, post) ==
    Len(post) = Len(pre) + 1 /\ SubSeq(post, 1, Len(pre)) = pre

(***************************************************************************)
(* C1: with requiresApproval = true, a call of requestAccess by a known    *)
(* requester adds no grant, adds exactly one pending approval request      *)
(* whose approver is the requester's manager, and returns the pending      *)
(* outcome with that request's id and that approver.                       *)
(***************************************************************************)
C1_ApprovalRequiredPath ==
    (ReturnedAccessCall /\ LastPolicy.requires_approval = "true") =>
        LET row == last.post_requests[Len(last.post_requests)]
            manager == EmployeeOf(last.userEmail).manager_email
        IN  /\ last.post_access = last.pre_access
            /\ AppendsOne(last.pre_requests, last.post_requests)
            /\ row.status = "pending"
            /\ row.approver_email = manager
            /\ row.requester_email = last.userEmail
            /\ row.resource_type = last.resourceType
            /\ row.resource_name = last.resourceName
            /\ IsPendingApproval(last.result)
            /\ last.result.requestId = row.request_id
            /\ last.result.approver = manager

C1_Witness ==
    /\ ReturnedAccessCall
    /\ LastPolicy.requires_approval = "true"
    /\ last.pre_requests # <<>>
    /\ last.userEmail = "frank"

(***************************************************************************)
(* Reading of a condition clause by the stated condition language: the     *)
(* clause key=v1|...|vn holds when the requester's attribute key is one of *)
(* the vi.                                                                 *)
(***************************************************************************)
ClauseHolds(clause, user) ==
    LET parts == Split(clause, "=")
    IN  /\ Len(parts) = 2
        /\ Len(parts[1]) = 1
        /\ parts[1][1] \in DOMAIN user
        /\ Includes(Split(parts[2], "|"), <<user[parts[1][1]]>>)

AllClausesHold(conditions, user) ==
    \/ conditions = <<"none">>
    \/ conditions = <<>>
    \/ \A i \in DOMAIN Split(conditions, ",") :
          ClauseHolds(Split(conditions, ",")[i], user)

(***************************************************************************)
(* C2: with requiresApproval = false the call auto-grants iff every clause *)
(* of autoApproveConditions holds for the requester (none / absent always  *)
(* grants), and otherwise denies with CONDITIONS_NOT_MET.                  *)
(***************************************************************************)
C2_AutoGrantIffAllClauses ==
    (ReturnedAccessCall /\ LastPolicy.requires_approval = "false") =>
        LET holds == AllClausesHold(LastPolicy.auto_approve_conditions,
                                    EmployeeOf(last.userEmail))
        IN  /\ IsAutoGranted(last.result) <=> holds
            /\ ~holds => IsDenied(last.result, "CONDITIONS_NOT_MET")

(***************************************************************************)
(* C3: the approval-request table never holds two pending requests for the *)
(* same (requester, resource type, resource name).                         *)
(***************************************************************************)
C3_NoDuplicatePending ==
    \A i, j \in DOMAIN approval_requests :
        ( /\ i # j
          /\ approval_requests[i].status = "pending"
          /\ approval_requests[j].status = "pending" ) =>
        ~ ( /\ approval_requests[i].requester_email
                = approval_requests[j].requester_email
            /\ approval_requests[i].resource_type
                = approval_requests[j].resource_type
            /\ approval_requests[i].resource_name
                = approval_requests[j].resource_name )

(***************************************************************************)
(* C4: every completed call of requestAccess, whatever its branch, appends *)
(* exactly one audit event.                                                *)
(***************************************************************************)
C4_OneAuditEventPerCall ==
    last.op = "requestAccess" => last.audit_rows = 1

C6_DenialChangesNothing ==
    (last.op = "requestAccess" /\ ~last.result.threw /\ ~last.result.success)
    =>  /\ last.post_access = last.pre_access
        /\ last.post_requests = last.pre_requests
        /\ ReasonCode(last.result.error) = "CONDITIONS_NOT_MET" =>
              SubSeq(last.result.error, 2, Len(last.result.error))
                  = LastPolicy.auto_approve_conditions

C6_Witness ==
    /\ last.op = "requestAccess"
    /\ IsDenied(last.result, "CONDITIONS_NOT_MET")
    /\ last.pre_requests # <<>>
    /\ approval_requests = last.post_requests

(***************************************************************************)
(* C7: the policy is looked up before the user: with no policy for the     *)
(* resource the result is Denied(NO_POLICY) whether or not the requester   *)
(* exists; Denied(USER_NOT_FOUND) comes only when the policy exists and no *)
(* employee has the email.                                                 *)
(***************************************************************************)
C7_PolicyBeforeUser ==
    last.op = "requestAccess" =>
        /\ ~HasPolicy(last.resourceType, last.resourceName)
              => IsDenied(last.result, "NO_POLICY")
        /\ IsDenied(last.result, "USER_NOT_FOUND")
              <=> ( /\ HasPolicy(last.resourceType, last.resourceName)
                    /\ ~HasEmployee(last.userEmail) )

C7_Witness ==
    /\ last.op = "requestAccess"
    /\ ~HasPolicy(last.resourceType, last.resourceName)
    /\ ~HasEmployee(last.userEmail)

(***************************************************************************)
(* C8: for any key k, a policy whose condition is the one clause k=v1|v2   *)
(* auto-grants exactly when the requester's attribute k is v1 or v2.       *)
(***************************************************************************)
C8_AlternationForAnyKey ==
    LET conditions == LastPolicy.auto_approve_conditions
        parts == Split(conditions, "=")
    IN  ( /\ ReturnedAccessCall
          /\ LastPolicy.requires_approval = "false"
          /\ Len(Split(conditions, ",")) = 1
          /\ Len(parts) = 2
          /\ Len(Split(parts[2], "|")) = 2 )
        => ( IsAutoGranted(last.result)
             <=> \/ Attr(EmployeeOf(last.userEmail), parts[1])
                      = Split(parts[2], "|")[1]
                 \/ Attr(EmployeeOf(last.userEmail), parts[1])
                      = Split(parts[2], "|")[2] )

(***************************************************************************)
(* C9: no two rows of the approval-request table have the same request id. *)
(***************************************************************************)
C9_UniqueRequestId ==
    \A i, j \in DOMAIN approval_requests :
        i # j => approval_requests[i].request_id
                    # approval_requests[j].request_id

(***************************************************************************)
(* Vocabulary of the training properties, read off the training file       *)
(***************************************************************************)
HasRequirement(resourceType, resourceName) ==
    \E i \in DOMAIN training_requirements :
        /\ training_requirements[i].resource_type = resourceType
        /\ training_requirements[i].resource_name = resourceName

RequiredIdsOf(resourceType, resourceName) ==
    LET req == CHOOSE r \in {training_requirements[i] :
                                i \in DOMAIN training_requirements} :
                   /\ r.resource_type = resourceType
                   /\ r.resource_name = resourceName
        ids == Split(req.required_training, ";")
    IN  {ids[i] : i \in DOMAIN ids}

\* the user's completed rows for a training
CompletedRows(userEmail, id) ==
    {user_training[i] : i \in
        {j \in DOMAIN user_training :
            /\ user_training[j].user_email = userEmail
            /\ <<user_training[j].training_id>> = id
            /\ user_training[j].completed = "true"}}

\* a required training the user has no completed row for
IsMissing(userEmail, id) == CompletedRows(userEmail, id) = {}

\* a required training whose completed row ran out before time t
IsExpiredAt(userEmail, id, t) ==
    \E row \in CompletedRows(userEmail, id) :
        row.expires_at.k = "date" /\ row.expires_at.t < t

(***************************************************************************)
(* C10: with no training requirement for the resource the gate returns     *)
(* hasRequiredTraining = true and two empty lists; otherwise               *)
(* hasRequiredTraining is true iff none of the required trainings is       *)
(* missing and none is expired.                                            *)
(***************************************************************************)
C10_TrainingAggregate ==
    gate.op = "checkUserTrainingStatus" =>
        IF ~HasRequirement(gate.resourceType, gate.resourceName)
        THEN /\ gate.result.hasRequiredTraining
             /\ gate.result.trainingStatus = <<>>
             /\ gate.result.missingTraining = <<>>
        ELSE gate.result.hasRequiredTraining
             <=> \A id \in RequiredIdsOf(gate.resourceType,
                                         gate.resourceName) :
                    /\ ~IsMissing(gate.userEmail, id)
                    /\ ~IsExpiredAt(gate.userEmail, id, gate.at)

\* both trainings on file and completed, one of them run out
C10_Witness ==
    /\ gate.op = "checkUserTrainingStatus"
    /\ gate.resourceName = "production_db"
    /\ Len(gate.result.trainingStatus) = 2
    /\ ~gate.result.hasRequiredTraining


\* the entries of a result list for one training
ItemsOf(list, id) ==
    {list[i] : i \in {j \in DOMAIN list : list[j].training_id = id}}

\* a completed row whose expires_at is unset or not earlier than time t
HasValidRowAt(userEmail, id, t) ==
    \E row \in CompletedRows(userEmail, id) :
        ~(row.expires_at.k = "date" /\ row.expires_at.t < t)

(***************************************************************************)
(* C11: a required training counts as satisfied iff the user has a row for *)
(* it with completed = true and expires_at unset or not earlier than the   *)
(* time of the call; a completed row that ran out is in the status list    *)
(* with expired = true, is not in the missing list, and makes              *)
(* hasRequiredTraining false.                                              *)
(***************************************************************************)
C11_ExpirySemantics ==
    (gate.op = "checkUserTrainingStatus"
     /\ HasRequirement(gate.resourceType, gate.resourceName)) =>
        \A id \in RequiredIdsOf(gate.resourceType, gate.resourceName) :
            /\ (\E item \in ItemsOf(gate.result.trainingStatus, id) :
                    ~item.expired)
               <=> HasValidRowAt(gate.userEmail, id, gate.at)
            /\ IsExpiredAt(gate.userEmail, id, gate.at) =>
                  /\ \E item \in ItemsOf(gate.result.trainingStatus, id) :
                        item.expired
                  /\ ItemsOf(gate.result.missingTraining, id) = {}
                  /\ ~gate.result.hasRequiredTraining

\* asked at time 2 about a training that ran out at time 1, the other
\* required training being in order
C11_Witness ==
    /\ gate.op = "checkUserTrainingStatus"
    /\ gate.userEmail = "eve"
    /\ gate.resourceName = "production_db"
    /\ gate.at = 2
    /\ gate.result.missingTraining = <<>>
    /\ \E i, j \in DOMAIN gate.result.trainingStatus :
          /\ gate.result.trainingStatus[i].expired
          /\ ~gate.result.trainingStatus[j].expired

\* every table of the store
tables ==
    <<employees, user_access, approval_requests, api_keys, audit_log,
      user_training>>

\* the latest two calls of the gate were about the same user and resource
SamePairTwice ==
    /\ gate.op = "checkUserTrainingStatus"
    /\ gate.prev.op = "checkUserTrainingStatus"
    /\ gate.prev.userEmail = gate.userEmail
    /\ gate.prev.resourceType = gate.resourceType
    /\ gate.prev.resourceName = gate.resourceName

PendingAt(table, approverEmail) ==
    {i \in DOMAIN table : /\ table[i].status = "pending"
                          /\ table[i].approver_email = approverEmail}

\* seq lists the rows of table at the positions in at, once each, in the
\* order of the file
ListsExactly(seq, table, at) ==
    /\ Len(seq) = Cardinality(at)
    /\ \A k \in DOMAIN seq :
          \E i \in at :
             /\ seq[k] = table[i]
             /\ Cardinality({j \in at : j < i}) = k - 1

RequestsAt(table, requesterEmail, status) ==
    {i \in DOMAIN table : /\ table[i].requester_email = requesterEmail
                          /\ table[i].status = status}

\* list holds the rows of table at the positions in at, each as often as
\* it occurs there, newest first
ListsNewestFirst(list, table, at) ==
    /\ Len(list) = Cardinality(at)
    /\ \A i \in at :
          Cardinality({k \in DOMAIN list : list[k] = table[i]})
              = Cardinality({j \in at : table[j] = table[i]})
    /\ \A k, l \in DOMAIN list :
          k < l => list[k].created_at >= list[l].created_at

RowsWithId(table, requestId) ==
    {i \in DOMAIN table : table[i].request_id = requestId}

\* what the last resolve call returned and did
ResolveOutcome ==
    last.op = "resolve" =>
        LET pre == last.pre_requests
            post == last.post_requests
            hits == RowsWithId(pre, last.result.requestId)
        IN  /\ Len(post) = Len(pre)
            /\ \A i \in DOMAIN pre : i \notin hits => post[i] = pre[i]
            /\ IF hits = {}
               THEN /\ last.result.error = <<"NotFound">>
                    /\ last.post_access = last.pre_access
               ELSE IF \A i \in hits : pre[i].status = "pending"
               THEN /\ last.result.success
                    /\ \A i \in hits :
                          /\ post[i].status = last.decision
                          /\ post[i].resolved_at = DateAt(last.since)
                          /\ post[i].requester_email = pre[i].requester_email
                    /\ IF last.decision = "approved"
                       THEN /\ AppendsOne(last.pre_access, last.post_access)
                            /\ \E i \in hits :
                                  LET grant ==
                                        last.post_access[Len(last.post_access)]
                                  IN  /\ grant.user_email
                                           = pre[i].requester_email
                                      /\ grant.resource_type
                                           = pre[i].resource_type
                                      /\ grant.resource_name
                                           = pre[i].resource_name
                                      /\ grant.status = "active"
                       ELSE last.post_access = last.pre_access
               ELSE /\ last.result.error = <<"AlreadyResolved">>
                    /\ post = pre
                    /\ last.post_access = last.pre_access

LoggedLast == "row" \in DOMAIN last /\ "event" \in DOMAIN last

\* the caller left the field unset: absent, or present and undefined
Unset(event, f) == f \notin DOMAIN event \/ event[f] = Undef

(***************************************************************************)
(* C16: the event logEvent stores has a generated event_id and timestamp,  *)
(* and severity LOW and action_result SUCCESS whenever the caller left     *)
(* that field unset (absent or undefined); so every stored event has a     *)
(* severity of LOW, MEDIUM, HIGH or CRITICAL and an action_result of       *)
(* SUCCESS, FAILURE or PENDING.                                            *)
(***************************************************************************)
C16_DefaultsFilled ==
    /\ LoggedLast =>
          /\ last.row.event_id[1] = "AUDIT"
          /\ last.row.event_id[2] = last.since
          /\ last.row.timestamp = last.since
          /\ Unset(last.event, "severity") => last.row.severity = "LOW"
          /\ Unset(last.event, "action_result")
                => last.row.action_result = "SUCCESS"
    /\ \A i \in DOMAIN audit_log :
          /\ audit_log[i].severity \in Severities
          /\ audit_log[i].action_result \in ActionResults

(***************************************************************************)
(* C17: the audit log is append-only: whatever the interleaving of the     *)
(* audit-recording calls, every event stored earlier is still there and    *)
(* unchanged after each step, and for any fixed filter the total of        *)
(* searchAuditLogs never decreases.                                        *)
(***************************************************************************)
C17_AuditAppendOnly ==
    [][/\ \A i \in DOMAIN audit_log :
             /\ i \in DOMAIN audit_log'
             /\ audit_log'[i] = audit_log[i]
       /\ \A params \in SearchParams :
             SearchTotal(audit_log', params)
                >= SearchTotal(audit_log, params)]_vars

(***************************************************************************)
(* C18: every event in the audit log, whichever way it got there           *)
(* (logAccessRequest, logIPWhitelist, logSecurityEvent, a direct logEvent  *)
(* or POST /api/audit with the client's risk_score), has a risk_score      *)
(* from 0 to 100.                                                          *)
(***************************************************************************)
C18_RiskScoreInRange ==
    \A i \in DOMAIN audit_log :
        audit_log[i].risk_score >= 0 /\ audit_log[i].risk_score <= 100

\* C19: a failed audit append is swallowed.  Whatever appends of a
\* whitelistIP call fail, the call does not throw, and it returns the result
\* and leaves ip_whitelist.csv as the same call would with every append
\* succeeding.
WhitelistIPStep == ncalls' = ncalls + 1 /\ last'.op = "whitelistIP"

C19_AuditFailureSwallowed ==
    [][WhitelistIPStep =>
          LET clean == whitelistIP(last'.userEmail, last'.ip, Reason,
                                   last'.rnd, AllStored)
          IN  /\ ~last'.result.threw
              /\ last'.result = clean.result
              /\ ip_whitelist' = clean.ip_whitelist]_vars

\* a call that whitelisted the address although audit appends failed
C19_Witness ==
    /\ last.op = "whitelistIP"
    /\ last.stored # AllStored
    /\ last.result.success
    /\ Len(ip_whitelist) = Len(last.pre_whitelist) + 1
    /\ Len(audit_log) < Len(last.pre_log) + 3

\* C20: a failed external call does not abort the decision.  When
\* sendSlackDM or createJiraTicket fails on an approval-required path of
\* requestAccess or requestAPIKey, the caller still gets the pending-approval
\* outcome of a request that is in the store, and the audit log holds an
\* event of elevated severity about the requester.
ExternalFailed == last.phase \in {"slack rejected", "jira rejected"}

PendingApprovalReturned ==
    /\ ~last.result.threw
    /\ last.result.success
    /\ last.result.requiresApproval
    /\ \E row \in Rows(approval_requests) :
          /\ row.request_id = last.result.requestId
          /\ row.status = "pending"

FailureAudited ==
    \E row \in Rows(audit_log) :
       /\ row.user_email = last.userEmail
       /\ row.severity \in {"MEDIUM", "HIGH", "CRITICAL"}

EffectiveAt(row, t) ==
    /\ row.status = "active"
    /\ row.expires_at = NullDate \/ row.expires_at.t > t

C21_EffectiveGrantsOnly ==
    /\ view.op = "checkUserAccess" =>
          view.result = SelectSeq(view.table,
              LAMBDA row : row.user_email = view.arg[1]
                           /\ EffectiveAt(row, view.at))
    /\ (view.op = "validateUserPermission" /\ view.result.hasPermission) =>
          \E row \in Rows(view.table) :
             /\ row.user_email = view.arg[1]
             /\ row.resource_type = view.arg[2]
             /\ row.resource_name = view.arg[3]
             /\ EffectiveAt(row, view.at)

\* C22: requestAccess never throws for a policy or user problem: whatever
\* the requester, the resource and the text of the policy's
\* auto_approve_conditions, the call returns a structured outcome.
C22_NeverThrows == last.op = "requestAccess" => ~last.result.threw

\* C23: searchAuditLogs returns only events that satisfy every supplied
\* filter, newest first; total counts the matching events before
\* pagination; events is the slice [offset, offset + limit) of that order
\* for the offset and limit the caller supplied (offset 0 and limit 50 when
\* none is supplied); hasMore tells whether matching events remain after the
\* page.
Supplied(params, f, dflt) == IF f \in DOMAIN params THEN params[f] ELSE dflt

SatisfiesFilters(event, params) ==
    /\ "userEmail" \in DOMAIN params => event.user_email = params.userEmail
    /\ "startDate" \in DOMAIN params => event.timestamp >= params.startDate
    /\ "endDate" \in DOMAIN params => event.timestamp <= params.endDate
    /\ "eventTypes" \in DOMAIN params => event.event_type \in params.eventTypes
    /\ "severity" \in DOMAIN params => event.severity \in params.severity
    /\ "resourceType" \in DOMAIN params
          => event.resource_type = params.resourceType
    /\ "resourceName" \in DOMAIN params
          => event.resource_name = params.resourceName

NewestFirst(events) ==
    \A i, j \in DOMAIN events :
       i < j => events[i].timestamp >= events[j].timestamp

SearchContract(log, params, result) ==
    LET matching == SelectSeq(log,
                        LAMBDA event : SatisfiesFilters(event, params))
        offset == Supplied(params, "offset", 0)
        limit == Supplied(params, "limit", DefaultLimit)
        page == Slice(SortByTimestamp(matching), offset, offset + limit)
    IN  /\ \A i \in DOMAIN result.events :
              SatisfiesFilters(result.events[i], params)
        /\ NewestFirst(result.events)
        /\ result.total = Len(matching)
        /\ result.events = page
        /\ result.hasMore = (offset + Len(page) < Len(matching))

C23_SearchContract ==
    view.op = "searchAuditLogs" =>
        SearchContract(view.table, view.arg, view.result)

\* the names of the model that contain a given word, written out
NameContains(name, word) ==
    \/ word = "production" /\ name = "production_db"
    \/ word = "prod" /\ name \in {"production_db", "prod_cache"}
    \/ word = "intern" /\ name = "ivy.intern"

\* C24: in the server and in the client audit logger, the severity of a
\* resource is HIGH if its name contains 'production' or 'prod' or it is the
\* api_key stripe, otherwise MEDIUM if its type is database or api_key,
\* otherwise LOW.
C24_SeverityForResource ==
    view.op = "getSeverityForResource" =>
        LET type == view.arg[2]
            name == view.arg[3]
        IN  view.result =
               IF \/ NameContains(name, "production")
                  \/ NameContains(name, "prod")
                  \/ (type = "api_key" /\ name = "stripe")
               THEN "HIGH"
               ELSE IF type \in {"database", "api_key"} THEN "MEDIUM"
               ELSE "LOW"

\* the client logger rated the api_key stripe
C24_Witness ==
    /\ view.op = "getSeverityForResource"
    /\ view.arg = <<"client", "api_key", "stripe">>
    /\ view.result = "HIGH"

Bit(b) == IF b THEN 1 ELSE 0

\* C25: in the server and in the client audit logger, the risk score is
\* min(100, 10 + 40 [name contains 'production'] + 30 [type = database]
\* + 25 [type = api_key] + 35 [name = stripe] + 20 [email contains 'intern']).
C25_RiskScoreFormula ==
    view.op = "calculateRiskScore" =>
        LET type == view.arg[2]
            name == view.arg[3]
            email == view.arg[4]
            sum == 10 + 40 * Bit(NameContains(name, "production"))
                      + 30 * Bit(type = "database")
                      + 25 * Bit(type = "api_key")
                      + 35 * Bit(name = "stripe")
                      + 20 * Bit(NameContains(email, "intern"))
        IN  view.result = IF sum > 100 THEN 100 ELSE sum

\* the client logger scored an intern on the production database: 100
C25_Witness ==
    /\ view.op = "calculateRiskScore"
    /\ view.arg = <<"client", "database", "production_db", "ivy.intern">>
    /\ view.result = 100

\* the position of an id in the declared list
IndexOf(list, x) == CHOOSE k \in DOMAIN list : list[k] = x

Occurrences(items, id) ==
    Cardinality({i \in DOMAIN items : items[i].training_id = id})

InDeclaredOrder(items, ids) ==
    \A i, j \in DOMAIN items :
       i < j => IndexOf(ids, items[i].training_id)
                    < IndexOf(ids, items[j].training_id)

AlignedWith(items, ids, names, urls) ==
    \A i \in DOMAIN items :
       LET k == IndexOf(ids, items[i].training_id)
       IN  /\ items[i].training_name = names[k]
           /\ items[i].training_url = urls[k]

\* C26: for a resource with a training requirement, the gate reports every
\* required training id exactly once across trainingStatus and
\* missingTraining, each list in the declared order of the ids, each item
\* with the name and the url declared at the index of its id.
C26_EveryTrainingOnceInOrder ==
    LET req == getTrainingRequirements(gate.resourceType, gate.resourceName)
    IN  (gate.op = "checkUserTrainingStatus" /\ req # <<>>) =>
           LET ids == Split(req[1].required_training, ";")
               names == Split(req[1].training_name, ";")
               urls == Split(req[1].training_url, ";")
               status == gate.result.trainingStatus
               missing == gate.result.missingTraining
           IN  /\ Len(status) + Len(missing) = Len(ids)
               /\ \A k \in DOMAIN ids :
                     Occurrences(status, ids[k])
                         + Occurrences(missing, ids[k]) = 1
               /\ InDeclaredOrder(status, ids)
               /\ InDeclaredOrder(missing, ids)
               /\ AlignedWith(status, ids, names, urls)
               /\ AlignedWith(missing, ids, names, urls)

\* two trainings reported in one list, and a call with one in each list
C26_Witness ==
    /\ gate.op = "checkUserTrainingStatus"
    /\ gate.resourceName = "production_db"
    /\ Len(gate.result.trainingStatus) = 1
    /\ Len(gate.result.missingTraining) = 1
    /\ gate.prev.op = "checkUserTrainingStatus"
    /\ Len(gate.prev.result.missingTraining) = 2

ActiveRows(ip) ==
    {i \in DOMAIN ip_whitelist :
        ip_whitelist[i].ip_address = ip /\ ip_whitelist[i].status = "active"}

\* C27: whitelistIP appends a row only for an existing, trained user and an
\* address without an active row, and a rejected call leaves the table as it
\* was; so after any sequence or interleaving of calls no address has more
\* than one active whitelist row.
C27_OneActiveRowPerIP ==
    \A ip \in Addresses : Cardinality(ActiveRows(ip)) <= 1

Quiet == client.sends = {} /\ client.flushes = <<>>

TimesAcked(event) ==
    Cardinality({i \in DOMAIN client.acked : client.acked[i].event = event})

TimesPending(event) ==
    Cardinality({i \in DOMAIN client.pendingEvents :
                    client.pendingEvents[i] = event})

\* C28: the client audit logger neither loses an event nor delivers one
\* twice.  Once no send is in flight, every event passed to logEvent is
\* either acknowledged once or held once in pendingEvents, never both, and
\* logEvent returned true exactly for the events whose own send was
\* acknowledged.
C28_NoEventLostOrDoubled ==
    Quiet =>
       \A event \in 1..ncalls :
          /\ TimesAcked(event) + TimesPending(event) = 1
          /\ event \in DOMAIN client.returned
          /\ client.returned[event] =
                (Acknowledged(event, "logEvent") \in Rows(client.acked))

\* with no send in flight: one event acknowledged by its own send, one by a
\* flush, and one still queued
C28_Witness ==
    /\ Quiet
    /\ ncalls = 3
    /\ \E a, b, c \in 1..3 :
          /\ Acknowledged(a, "logEvent") \in Rows(client.acked)
          /\ Acknowledged(b, "flush") \in Rows(client.acked)
          /\ TimesPending(c) = 1

\* the event is on its way to the server or has been acknowledged
Sent(event) ==
    \/ TimesAcked(event) > 0
    \/ \E k \in DOMAIN client.flushes : Head(client.flushes[k]) = event

\* C29: under fairness, every event held in pendingEvents is eventually sent
\* to the server once the client is online and the server accepts requests,
\* whether it was queued while offline or after a failed send.
C29_PendingEventuallySent ==
    <>[](client.isOnline /\ client.serverUp) =>
        \A event \in 1..MaxEvents : (TimesPending(event) > 0) ~> Sent(event)

\* the user has a completed security_training record whose expires_at is
\* not a date before t (it is unset, the null marker, no date at all, or a
\* date not yet past)
ValidSecurityRecord(table, userEmail, t) ==
    \E row \in Rows(table) :
       /\ row.user_email = userEmail
       /\ row.training_id = "security_training"
       /\ row.completed = "true"
       /\ ~(row.expires_at.k = "date" /\ row.expires_at.t < t)

\* C30: hasSecurityTraining applies the validity rule of the training gate:
\* it returns true iff the user has a completed security_training record
\* whose expires_at is unset or not in the past, and its verdict is the
\* gate's verdict on that record for every value of expires_at.
C30_SameRuleAsGate ==
    (view.op = "hasSecurityTraining" /\ view.at = now) =>
        /\ view.result = ValidSecurityRecord(view.table, view.arg, view.at)
        /\ view.result =
              checkUserTrainingStatus(view.arg, "cloud",
                                      "aws_dev").hasRequiredTraining
====
